---- MODULE Spec2Model ----
(***************************************************************************)
(* The key pool, the rotation state machine and the hybrid document codec  *)
(* of pqfile: lambdas/unified_api, lambdas/store_lambda,                   *)
(* lambdas/retrieve_lambda and lambdas/rotate_keys, which share one        *)
(* encryption_keys table, one access_logs table and one S3 bucket.         *)
(*                                                                         *)
(* Every conn.run(...) is one statement of an autocommit pg8000            *)
(* connection and every S3 call is one request, so each of them is one     *)
(* atomic step; the steps of concurrently running handlers interleave.     *)
(* Work a handler does between two such steps touches only its own locals  *)
(* and is folded into the step that follows it.                            *)
(***************************************************************************)
EXTENDS Integers, Sequences, FiniteSets, TLC

VARIABLES
    keys,           \* table encryption_keys: row id = index
    now,            \* CURRENT_TIMESTAMP, in days
    s3,             \* bucket: object id -> encrypted package
    access_logs,    \* table access_logs, in insertion order
    key_rotations,  \* table key_rotations, in insertion order
    proc,           \* per running handler: its operation, position and locals
    usageThreshold, \* the operator's configured usageThreshold (spec.md §6)
    minActiveKeys,  \* rotate_keys' environment variable MIN_ACTIVE_KEYS
    uuids,          \* number of uuid4() document ids handed out
    kms,            \* number of KMS keys created (KMS is external)
    budget,         \* invocations and days the environment may still add
    pool0,          \* history: the initial pool's size, active keys and sum of usage_count
    selections,     \* history: number of key selections that returned
    plain,          \* history: object id -> document the stored package was made from
    lastPass        \* history: today, if a rotation pass has begun and completed today; else -1

vars == <<keys, now, s3, access_logs, key_rotations, proc, usageThreshold,
          minActiveKeys, uuids, kms, budget, pool0, selections, plain, lastPass>>

----------------------------------------------------------------------------
(* Bounds of the model *)

NProcs == 2
MaxOps == 2
MaxTicks == 1
MaxRand == 1
MaxDocLen == 17

(* Program constants *)

ROTATE_AGE_DAYS == 30
MIN_ACTIVE_KEYS == 3
DEACTIVATE_AFTER_DAYS == 60
USAGE_LIMIT == 1000
BlockBits == 128
ByteBits == 8
BlockSize == BlockBits \div ByteBits
MAX_DOCUMENT_SIZE_BYTES == MaxDocLen

(* Defaults of the encryption_keys columns that create_new_key's INSERT    *)
(* leaves out (the schema, init.sql, is not part of the sources).          *)
DefaultStatus == "active"
DefaultUsageCount == 0

Day0 == 100
Rand == 1..MaxRand
Bytes == {1, 16, 65, 200}
Statuses == {"active", "rotation_queued", "expired"}
CallerIds == {1}
ObjectKeys == {5}
UuidBase == 10
RotationBatch == 10
GENERATE_COUNT == 3

----------------------------------------------------------------------------
(* Generic helpers *)

RECURSIVE SumSeq(_)
SumSeq(s) == IF s = <<>> THEN 0 ELSE Head(s) + SumSeq(Tail(s))

RECURSIVE SetToSeq(_)
SetToSeq(S) ==
    IF S = {} THEN <<>>
    ELSE LET m == CHOOSE x \in S : \A y \in S : x <= y
         IN <<m>> \o SetToSeq(S \ {m})

Max(a, b) == IF a >= b THEN a ELSE b

Rep(b, n) == [i \in 1..n |-> b]

SumUsage(ks) == SumSeq([i \in DOMAIN ks |-> ks[i].usage_count])

ActiveIds(ks) == {i \in DOMAIN ks : ks[i].status = "active"}

----------------------------------------------------------------------------
(* Primitives: base64, ML-KEM-768, SHA-256, PKCS7, AES-256-CBC.            *)
(* The KEM, the hash and the block cipher are symbolic: a shared secret,   *)
(* a digest and a ciphertext are terms that name what they were made       *)
(* from, so two of them are equal exactly when they were made from the     *)
(* same inputs.                                                            *)

B64Encode(x) == [b64 |-> x]
B64Decode(y) == y.b64

GenerateKeypair(n) == [public_key |-> [pk |-> n], private_key |-> [sk |-> n]]

KemEncrypt(pub, r) ==
    [ciphertext    |-> [to |-> pub.pk, r |-> r],
     shared_secret |-> [kind |-> "kem", pair |-> pub.pk, to |-> pub.pk, r |-> r]]

\* decapsulation with the wrong private key does not fail: ML-KEM rejects
\* implicitly and returns a secret unrelated to the encapsulated one
KemDecrypt(priv, ct) ==
    IF ct.to = priv.sk
    THEN [kind |-> "kem", pair |-> priv.sk, to |-> ct.to, r |-> ct.r]
    ELSE [kind |-> "reject", pair |-> priv.sk, to |-> ct.to, r |-> ct.r]

Sha256(x) == [sha256 |-> x]

\* retrieve_lambda: shared_secret = sha256(ciphertext + public_key).digest()
SimulatedDecapsulate(ct, pub) ==
    [kind |-> "sha256", pair |-> pub.pk, to |-> ct.to, r |-> ct.r]

\* a padder that adds nothing to a document that already fills its blocks
PadToBlock(d) ==
    LET n == (BlockSize - (Len(d) % BlockSize)) % BlockSize
    IN d \o Rep(n, n)

Pkcs7Pad(d) ==
    LET n == BlockSize - (Len(d) % BlockSize)
    IN d \o Rep(n, n)

UnpadError == [ok |-> FALSE, data |-> <<>>]

Pkcs7Unpad(p) ==
    IF Len(p) = 0 \/ Len(p) % BlockSize # 0 THEN UnpadError
    ELSE LET n == p[Len(p)]
         IN IF n < 1 \/ n > BlockSize THEN UnpadError
            ELSE IF \E i \in (Len(p) - n + 1)..Len(p) : p[i] # n THEN UnpadError
            ELSE [ok |-> TRUE, data |-> SubSeq(p, 1, Len(p) - n)]

\* a byte the model does not track: what the block cipher makes of a block
\* it was not given by the encryption
Unknown == -1

RECURSIVE XorBits(_, _, _)
XorBits(a, b, n) ==
    IF n = 0 THEN 0
    ELSE (((a % 2) + (b % 2)) % 2) + 2 * XorBits(a \div 2, b \div 2, n - 1)

Xor(a, b) ==
    IF a = Unknown \/ b = Unknown THEN Unknown
    ELSE IF b = 0 THEN a
    ELSE IF a = b THEN 0
    ELSE XorBits(a, b, ByteBits)

\* os.urandom(16), the n-th draw
Urandom(n) == Rep(n, BlockSize)

\* the ciphertext names the key, the iv and the padded blocks it was made
\* from; delta is what has been XORed onto its bytes since, all 0 for the
\* ciphertext as the cipher produced it
AesCbcEncrypt(aes_key, iv, padded) ==
    [aes_key |-> aes_key, iv |-> iv, blocks |-> padded, delta |-> Rep(0, Len(padded))]

\* what decryption under another key yields: blocks unrelated to the
\* plaintext
Scrambled == <<Unknown>>

BlockOf(i) == (i - 1) \div BlockSize + 1

\* CBC: plaintext block b is D(ciphertext block b) XOR ciphertext block
\* b - 1, or XOR the iv for the first block. A changed ciphertext block
\* decrypts to untracked bytes, and the change is XORed onto the plaintext
\* of the block after it; a changed iv is XORed onto the first block
AesCbcDecrypt(aes_key, iv, c) ==
    IF aes_key # c.aes_key THEN Scrambled
    ELSE LET changed == {BlockOf(j) : j \in {k \in DOMAIN c.delta : c.delta[k] # 0}}
         IN [i \in 1..Len(c.blocks) |->
                IF BlockOf(i) \in changed THEN Unknown
                ELSE IF i <= BlockSize
                THEN Xor(c.blocks[i], Xor(iv[i], c.iv[i]))
                ELSE Xor(c.blocks[i], c.delta[i - BlockSize])]

\* unpadder.update + finalize: a last block of untracked bytes ends in a
\* valid padding or not, depending on bytes the model does not track
UnpadOutcomes(padded) ==
    IF padded[Len(padded)] = Unknown
    THEN {UnpadError, [ok |-> TRUE, data |-> Scrambled]}
    ELSE {Pkcs7Unpad(padded)}

----------------------------------------------------------------------------
(* Records *)

\* a row of encryption_keys; kms_key_id 0 is NULL
KeyRow(pair, kms_key_id, status, usage_count, created_at) ==
    [public_key  |-> B64Encode(GenerateKeypair(pair).public_key),
     private_key |-> B64Encode(GenerateKeypair(pair).private_key),
     kms_key_id  |-> kms_key_id,
     status      |-> status,
     usage_count |-> usage_count,
     created_at  |-> created_at]

\* the dict a handler builds from the row its SELECT returned; status is ""
\* where the SELECT does not ask for it. usage_seen is the usage_count the
\* ORDER BY read: it is not a column of the result and the code never uses it.
KeyDict(ks, id) ==
    [id          |-> id,
     public_key  |-> ks[id].public_key,
     private_key |-> ks[id].private_key,
     kms_key_id  |-> ks[id].kms_key_id,
     status      |-> "",
     usage_seen  |-> ks[id].usage_count]

\* locals not yet assigned
NoKey == [id |-> 0]
NoPkg == [key_id |-> 0]

\* a handler's response: statusCode, the error text, and the payload
NoRes == [code |-> 0, error |-> "", data |-> <<>>, key_id |-> 0, document_id |-> 0,
          package |-> NoPkg, document_content |-> <<>>, is_base64_encoded |-> FALSE]

Response(code, error) == [NoRes EXCEPT !.code = code, !.error = error]

\* want, since and made are history of the handler, not locals: the document
\* a decryption should return, the day a rotation pass began, and the number
\* of keys the pass has created
IdleProc ==
    [op |-> "idle", pc |-> "idle", doc |-> <<>>, did |-> 0, key |-> NoKey,
     pkg |-> NoPkg, rows |-> <<>>, n |-> 0, res |-> NoRes, want |-> <<>>,
     since |-> 0, made |-> 0, output_format |-> "base64"]

Finish(p, res) == [proc EXCEPT ![p].pc = "done", ![p].res = res]

----------------------------------------------------------------------------
(* Key selection: unified_api get_or_create_active_key and store_lambda    *)
(* get_active_key are the same two statements.                             *)

\* a selection without the ORDER BY
AnyActive(ks) == ActiveIds(ks)

\* the rows SELECT ... WHERE status = 'active' ORDER BY usage_count ASC
\* LIMIT 1 may return: the order of rows with equal usage_count is not
\* specified by the query, so any of them may come first
LeastUsedActive(ks) ==
    {i \in ActiveIds(ks) : \A j \in ActiveIds(ks) : ks[i].usage_count <= ks[j].usage_count}

Selecting(p) == proc[p].op \in {"encrypt", "store_encrypt", "store_direct"}

SelectKey(p) ==
    /\ Selecting(p) /\ proc[p].pc = "select"
    /\ IF ActiveIds(keys) = {}
       THEN proc' = [proc EXCEPT ![p].pc = "create"]
       ELSE \E i \in LeastUsedActive(keys) :
                proc' = [proc EXCEPT ![p].pc = "update", ![p].key = KeyDict(keys, i)]
    /\ UNCHANGED <<keys, now, s3, access_logs, key_rotations, usageThreshold,
                   minActiveKeys, uuids, kms, budget, pool0, lastPass, selections, plain>>

\* a lost update: the counter written from the value read at selection time
StaleIncrement(ks, key) ==
    [ks EXCEPT ![key.id].usage_count = key.usage_seen + 1]

\* a counter that starts again from zero at the usage threshold
WrappingIncrement(ks, key) ==
    [ks EXCEPT ![key.id].usage_count = (@ + 1) % usageThreshold]

\* an increment that takes the key out of selection once it is used up
IncrementAndQueue(ks, key) ==
    [ks EXCEPT ![key.id].usage_count = @ + 1,
               ![key.id].status = IF ks[key.id].usage_count + 1 >= usageThreshold
                                  THEN "rotation_queued" ELSE @]

\* UPDATE encryption_keys SET usage_count = usage_count + 1 WHERE id = :key_id
IncrementUsage(ks, key) ==
    [ks EXCEPT ![key.id].usage_count = @ + 1]

UpdateUsage(p) ==
    /\ Selecting(p) /\ proc[p].pc = "update"
    /\ keys' = IncrementUsage(keys, proc[p].key)
    /\ proc' = [proc EXCEPT ![p].pc = "put"]
    /\ selections' = selections + 1
    /\ UNCHANGED <<now, s3, access_logs, key_rotations, usageThreshold,
                   minActiveKeys, uuids, kms, budget, pool0, lastPass, plain>>

\* INSERT INTO encryption_keys (public_key, private_key, kms_key_id,
\* kms_key_arn) ... : status, usage_count and created_at take their defaults
InsertNewKey(ks, kms_key_id, t) ==
    Append(ks, KeyRow(Len(ks) + 1, kms_key_id, DefaultStatus, DefaultUsageCount, t))

\* create_new_key(conn): generate_keypair, create_kms_key, INSERT ... RETURNING
CreateNewKey(p) ==
    /\ Selecting(p) /\ proc[p].pc = "create"
    /\ kms' = kms + 1
    /\ keys' = InsertNewKey(keys, kms', now)
    /\ proc' = [proc EXCEPT ![p].pc = "put",
                            ![p].key = [KeyDict(keys', Len(keys')) EXCEPT !.usage_seen = 0]]
    /\ selections' = selections + 1
    /\ UNCHANGED <<now, s3, access_logs, key_rotations, usageThreshold,
                   minActiveKeys, uuids, budget, pool0, lastPass, plain>>

----------------------------------------------------------------------------
(* Encryption: unified_api handle_encrypt / encrypt_document, and          *)
(* store_lambda lambda_handler (S3 event) / encrypt_document               *)

\* an idle worker takes the next invocation
Begin(p, locals) ==
    /\ proc[p].op = "idle"
    /\ budget.ops > 0
    /\ budget' = [budget EXCEPT !.ops = @ - 1]
    /\ proc' = [proc EXCEPT ![p] = locals]

\* a handle_encrypt that checks neither the presence nor the size of the
\* content
StartEncryptUnchecked(p, content, did) ==
    /\ Begin(p, [IdleProc EXCEPT !.op = "encrypt", !.pc = "select",
                                 !.doc = content, !.did = did])
    /\ UNCHANGED <<keys, now, s3, access_logs, key_rotations, usageThreshold,
                   minActiveKeys, uuids, kms, pool0, lastPass, selections, plain>>

\* handle_encrypt up to the call of encrypt_document; content <<>> is a
\* body with no content or with empty content; did 0 is no document_id
StartEncrypt(p, content, did) ==
    /\ Begin(p,
           IF content = <<>>
           THEN [IdleProc EXCEPT !.op = "encrypt", !.pc = "done",
                                 !.res = Response(400, "Missing document content")]
           ELSE IF Len(content) > MAX_DOCUMENT_SIZE_BYTES
           THEN [IdleProc EXCEPT !.op = "encrypt", !.pc = "done", !.doc = content,
                                 !.res = Response(400, "Document too large")]
           ELSE [IdleProc EXCEPT !.op = "encrypt", !.pc = "select",
                                 !.doc = content, !.did = did])
    /\ UNCHANGED <<keys, now, s3, access_logs, key_rotations, usageThreshold,
                   minActiveKeys, uuids, kms, pool0, lastPass, selections, plain>>

\* lambda_handler, one S3 record: get_object of the upload, the size check
\* (an oversized upload is skipped), then encrypt_document
StartStoreEncrypt(p, content, object_key) ==
    /\ Begin(p,
           IF Len(content) > MAX_DOCUMENT_SIZE_BYTES
           THEN [IdleProc EXCEPT !.op = "store_encrypt", !.pc = "done", !.doc = content,
                                 !.res = Response(200, "")]
           ELSE [IdleProc EXCEPT !.op = "store_encrypt", !.pc = "select",
                                 !.doc = content, !.did = object_key])
    /\ UNCHANGED <<keys, now, s3, access_logs, key_rotations, usageThreshold,
                   minActiveKeys, uuids, kms, pool0, lastPass, selections, plain>>

\* store_lambda lambda_handler, a direct call with a body: the same checks
\* as handle_encrypt, then encrypt_document(document_data)
StartStoreDirect(p, content) ==
    /\ Begin(p,
           IF content = <<>>
           THEN [IdleProc EXCEPT !.op = "store_direct", !.pc = "done",
                                 !.res = Response(400, "Missing document content")]
           ELSE IF Len(content) > MAX_DOCUMENT_SIZE_BYTES
           THEN [IdleProc EXCEPT !.op = "store_direct", !.pc = "done", !.doc = content,
                                 !.res = Response(400, "Document too large")]
           ELSE [IdleProc EXCEPT !.op = "store_direct", !.pc = "select", !.doc = content])
    /\ UNCHANGED <<keys, now, s3, access_logs, key_rotations, usageThreshold,
                   minActiveKeys, uuids, kms, pool0, lastPass, selections, plain>>

\* an encrypt_document that escrows the key it used in the package
EscrowedPackage(key, document_data, document_id, r, iv, t) ==
    LET public_key == B64Decode(key.public_key)
        kem        == KemEncrypt(public_key, r)
        aes_key    == Sha256(kem.shared_secret)
        padded     == Pkcs7Pad(document_data)
    IN [key_id         |-> key.id,
        private_key    |-> key.private_key,
        ciphertext     |-> B64Encode(kem.ciphertext),
        iv             |-> B64Encode(Urandom(iv)),
        encrypted_data |-> B64Encode(AesCbcEncrypt(aes_key, Urandom(iv), padded)),
        metadata       |-> [encryption_algorithm |-> "ML-KEM-768-AES256-CBC",
                            created_at  |-> t,
                            kms_key_id  |-> key.kms_key_id,
                            document_id |-> document_id]]

\* encrypt_document from the encapsulation to the package
EncryptedPackage(key, document_data, document_id, r, iv, t) ==
    LET public_key == B64Decode(key.public_key)
        kem        == KemEncrypt(public_key, r)
        aes_key    == Sha256(kem.shared_secret)
        padded     == Pkcs7Pad(document_data)
    IN [key_id         |-> key.id,
        ciphertext     |-> B64Encode(kem.ciphertext),
        iv             |-> B64Encode(Urandom(iv)),
        encrypted_data |-> B64Encode(AesCbcEncrypt(aes_key, Urandom(iv), padded)),
        metadata       |-> [encryption_algorithm |-> "ML-KEM-768-AES256-CBC",
                            created_at  |-> t,
                            kms_key_id  |-> key.kms_key_id,
                            document_id |-> document_id]]

\* s3_client.put_object(..., SSEKMSKeyId=kms_key_id): boto3 validates its
\* parameters before it sends anything and raises on SSEKMSKeyId=None
PutAccepted(pkg) == pkg.metadata.kms_key_id # 0

\* a put_object that keeps the object a key already has
PutObjectOnce(p, r, iv) ==
    /\ proc[p].op = "encrypt" /\ proc[p].pc = "put"
    /\   LET pkg == EncryptedPackage(proc[p].key, proc[p].doc, proc[p].did, r, iv, now)
             document_id == IF proc[p].did = 0 THEN UuidBase + uuids + 1 ELSE proc[p].did
         IN /\ uuids' = IF proc[p].did = 0 THEN uuids + 1 ELSE uuids
            /\ IF PutAccepted(pkg)
               THEN /\ s3' = s3 @@ (document_id :> pkg)
                    /\ plain' = (document_id :> proc[p].doc) @@ plain
                    /\ proc' = [proc EXCEPT ![p].pc = "log", ![p].pkg = pkg,
                                            ![p].did = document_id]
               ELSE /\ proc' = Finish(p, Response(500, "ParamValidationError"))
                    /\ UNCHANGED <<s3, plain>>
    /\ UNCHANGED <<keys, now, access_logs, key_rotations, usageThreshold,
                   minActiveKeys, kms, budget, pool0, lastPass, selections>>

\* encrypt_document after the key selection, up to put_object
PutObject(p, r, iv) ==
    /\ proc[p].op = "encrypt" /\ proc[p].pc = "put"
    /\   LET pkg == EncryptedPackage(proc[p].key, proc[p].doc, proc[p].did, r, iv, now)
             document_id == IF proc[p].did = 0 THEN UuidBase + uuids + 1 ELSE proc[p].did
         IN /\ uuids' = IF proc[p].did = 0 THEN uuids + 1 ELSE uuids
            /\ IF PutAccepted(pkg)
               THEN /\ s3' = (document_id :> pkg) @@ s3
                    /\ plain' = (document_id :> proc[p].doc) @@ plain
                    /\ proc' = [proc EXCEPT ![p].pc = "log", ![p].pkg = pkg,
                                            ![p].did = document_id]
               ELSE /\ proc' = Finish(p, Response(500, "ParamValidationError"))
                    /\ UNCHANGED <<s3, plain>>
    /\ UNCHANGED <<keys, now, access_logs, key_rotations, usageThreshold,
                   minActiveKeys, kms, budget, pool0, lastPass, selections>>

\* store_lambda: encrypt_document, then put_object under the encrypted/
\* prefix; an exception is caught per record and reported in a 200 response
StorePutObject(p, r, iv) ==
    /\ proc[p].op = "store_encrypt" /\ proc[p].pc = "put"
    /\   LET pkg == EncryptedPackage(proc[p].key, proc[p].doc, proc[p].did, r, iv, now)
         IN IF PutAccepted(pkg)
            THEN /\ s3' = (proc[p].did :> pkg) @@ s3
                 /\ plain' = (proc[p].did :> proc[p].doc) @@ plain
                 /\ proc' = [proc EXCEPT ![p].pc = "log", ![p].pkg = pkg]
            ELSE /\ proc' = Finish(p, Response(200, "ParamValidationError"))
                 /\ UNCHANGED <<s3, plain>>
    /\ UNCHANGED <<keys, now, access_logs, key_rotations, usageThreshold,
                   minActiveKeys, uuids, kms, budget, pool0, lastPass, selections>>

\* store_lambda, direct call: the package is the body of the answer; it is
\* neither stored nor logged
StoreDirectReturn(p, r, iv) ==
    /\ proc[p].op = "store_direct" /\ proc[p].pc = "put"
    /\ LET pkg == EncryptedPackage(proc[p].key, proc[p].doc, 0, r, iv, now)
       IN proc' = [Finish(p, [Response(200, "") EXCEPT !.key_id = proc[p].key.id,
                                                       !.package = pkg])
                     EXCEPT ![p].pkg = pkg]
    /\ UNCHANGED <<keys, now, s3, access_logs, key_rotations, usageThreshold,
                   minActiveKeys, uuids, kms, budget, pool0, lastPass, selections, plain>>

----------------------------------------------------------------------------
(* Text and bytes of a response: a str is the sequence of its code points, *)
(* bytes a sequence of numbers below 256.                                  *)

\* the base64 alphabet A-Z a-z 0-9 + / as code points, and '='
B64Char(i) ==
    IF i < 26 THEN 65 + i
    ELSE IF i < 52 THEN 71 + i
    ELSE IF i < 62 THEN i - 4
    ELSE IF i = 62 THEN 43 ELSE 47

B64Pad == 61

B64Index(c) ==
    IF c \in 65..90 THEN c - 65
    ELSE IF c \in 97..122 THEN c - 71
    ELSE IF c \in 48..57 THEN c + 4
    ELSE IF c = 43 THEN 62 ELSE 63

\* one to three bytes become four characters
B64Group(b) ==
    LET n == Len(b)
        v == b[1] * 65536 + (IF n > 1 THEN b[2] ELSE 0) * 256 + (IF n > 2 THEN b[3] ELSE 0)
    IN <<B64Char(v \div 262144), B64Char((v \div 4096) % 64),
         IF n > 1 THEN B64Char((v \div 64) % 64) ELSE B64Pad,
         IF n > 2 THEN B64Char(v % 64) ELSE B64Pad>>

RECURSIVE B64EncodeBytes(_)
\* base64.b64encode(b).decode('utf-8'); of bytes the model does not know,
\* characters it does not know
B64EncodeBytes(b) ==
    IF b = <<>> THEN <<>>
    ELSE LET k == IF Len(b) < 3 THEN Len(b) ELSE 3
             head == SubSeq(b, 1, k)
         IN (IF \E i \in 1..k : head[i] = Unknown
             THEN Rep(Unknown, 4) ELSE B64Group(head))
            \o B64EncodeBytes(SubSeq(b, k + 1, Len(b)))

\* four characters become one to three bytes
B64Ungroup(c) ==
    LET pads == IF c[3] = B64Pad THEN 2 ELSE IF c[4] = B64Pad THEN 1 ELSE 0
        v == B64Index(c[1]) * 262144 + B64Index(c[2]) * 4096
             + (IF pads < 2 THEN B64Index(c[3]) ELSE 0) * 64
             + (IF pads < 1 THEN B64Index(c[4]) ELSE 0)
    IN SubSeq(<<v \div 65536, (v \div 256) % 256, v % 256>>, 1, 3 - pads)

RECURSIVE B64DecodeText(_)
\* base64.b64decode(content)
B64DecodeText(c) ==
    IF Len(c) < 4 THEN <<>>
    ELSE B64Ungroup(SubSeq(c, 1, 4)) \o B64DecodeText(SubSeq(c, 5, Len(c)))

RECURSIVE Utf8Decode(_)
\* bytes.decode('utf-8'): a byte below 128 is a character, a lead byte
\* 194..223 and a continuation byte 128..191 are one character; any other
\* byte of the model's documents raises UnicodeDecodeError, a ValueError
Utf8Decode(b) ==
    IF b = <<>> THEN [ok |-> TRUE, text |-> <<>>]
    ELSE IF b[1] \in 0..127
    THEN LET rest == Utf8Decode(Tail(b))
         IN [ok |-> rest.ok, text |-> <<b[1]>> \o rest.text]
    ELSE IF b[1] \in 194..223 /\ Len(b) > 1 /\ b[2] \in 128..191
    THEN LET rest == Utf8Decode(Tail(Tail(b)))
         IN [ok |-> rest.ok, text |-> <<(b[1] - 192) * 64 + (b[2] - 128)>> \o rest.text]
    ELSE [ok |-> FALSE, text |-> <<>>]

RECURSIVE Utf8Encode(_)
\* str.encode('utf-8') of characters below U+0800
Utf8Encode(text) ==
    IF text = <<>> THEN <<>>
    ELSE (IF text[1] < 128 THEN <<text[1]>>
          ELSE <<192 + (text[1] \div 64), 128 + (text[1] % 64)>>)
         \o Utf8Encode(Tail(text))

\* bytes.decode('latin-1'): every byte is a character
Latin1Decode(b) == [ok |-> TRUE, text |-> b]

----------------------------------------------------------------------------
(* Audit log *)

LogEntry(document_id, access_type, key_id) ==
    [document_id |-> document_id, access_type |-> access_type, key_id |-> key_id]

\* a handle_decrypt that answers text whenever 'text' is asked for
HandleDecryptTextOnRequest(document_data, output_format) ==
    IF output_format = "text"
    THEN LET decoded == Latin1Decode(document_data)
         IN [Response(200, "") EXCEPT !.data = document_data,
                                      !.document_content = decoded.text,
                                      !.is_base64_encoded = FALSE]
    ELSE [Response(200, "") EXCEPT !.data = document_data,
                                   !.document_content = B64EncodeBytes(document_data),
                                   !.is_base64_encoded = TRUE]

\* handle_decrypt's answer for document_data: text if the request asked for
\* 'text' and every byte is below 128, base64 otherwise
HandleDecryptBody(document_data, output_format) ==
    IF output_format = "text" /\ \A i \in DOMAIN document_data : document_data[i] \in 0..127
    THEN LET decoded == Utf8Decode(document_data)
         IN IF decoded.ok
            THEN [Response(200, "") EXCEPT !.data = document_data,
                                           !.document_content = decoded.text,
                                           !.is_base64_encoded = FALSE]
            ELSE Response(404, "codec can't decode")
    ELSE [Response(200, "") EXCEPT !.data = document_data,
                                   !.document_content = B64EncodeBytes(document_data),
                                   !.is_base64_encoded = TRUE]

\* what the handler returns once log_operation has returned
AfterLog(p) ==
    CASE proc[p].op = "encrypt" ->
           [Response(200, "") EXCEPT !.key_id = proc[p].key.id,
                                     !.document_id = proc[p].did]
      [] proc[p].op = "store_encrypt" ->
           [Response(200, "") EXCEPT !.key_id = proc[p].key.id]
      [] proc[p].op = "decrypt" ->
           HandleDecryptBody(proc[p].doc, proc[p].output_format)
      [] OTHER ->
           [Response(200, "") EXCEPT !.data = proc[p].doc]

\* unified_api log_operation: INSERT with key_id; store_lambda
\* log_operation: INSERT without key_id
LogOperation(p) ==
    /\ proc[p].op \in {"encrypt", "store_encrypt", "decrypt"} /\ proc[p].pc = "log"
    /\ access_logs' = Append(access_logs,
           LogEntry(proc[p].did,
                    IF proc[p].op = "decrypt" THEN "decrypt" ELSE "encrypt",
                    IF proc[p].op = "store_encrypt" THEN 0 ELSE proc[p].key.id))
    /\ proc' = Finish(p, AfterLog(p))
    /\ UNCHANGED <<keys, now, s3, key_rotations, usageThreshold,
                   minActiveKeys, uuids, kms, budget, pool0, lastPass, selections, plain>>

\* the INSERTs raise: the except clause prints a warning and returns
LogOperationFails(p) ==
    /\ proc[p].op \in {"encrypt", "store_encrypt", "decrypt"} /\ proc[p].pc = "log"
    /\ proc' = Finish(p, AfterLog(p))
    /\ UNCHANGED <<keys, now, s3, access_logs, key_rotations, usageThreshold,
                   minActiveKeys, uuids, kms, budget, pool0, lastPass, selections, plain>>

\* get_db_connection() in log_operation raises: the call is outside the try.
\* In unified_api the exception is no ValueError and reaches lambda_handler,
\* which answers 500; in store_lambda the except clause of the record takes
\* it and the record is reported with the error
LogConnectFails(p) ==
    /\ proc[p].op \in {"encrypt", "store_encrypt", "decrypt"} /\ proc[p].pc = "log"
    /\ proc' = Finish(p, Response(IF proc[p].op = "store_encrypt" THEN 200 ELSE 500,
                                  "connection failed"))
    /\ UNCHANGED <<keys, now, s3, access_logs, key_rotations, usageThreshold,
                   minActiveKeys, uuids, kms, budget, pool0, lastPass, selections, plain>>

----------------------------------------------------------------------------
(* Decryption: unified_api handle_decrypt / decrypt_document               *)

StartDecrypt(p, document_id) ==
    /\ Begin(p, [IdleProc EXCEPT !.op = "decrypt", !.pc = "get", !.did = document_id])
    /\ UNCHANGED <<keys, now, s3, access_logs, key_rotations, usageThreshold,
                   minActiveKeys, uuids, kms, pool0, lastPass, selections, plain>>

\* a get_object that hands the package out once and removes it
GetObjectOnce(p) ==
    /\ proc[p].op = "decrypt" /\ proc[p].pc = "get"
    /\ proc' = IF proc[p].did \in DOMAIN s3
               THEN [proc EXCEPT ![p].pc = "getkey", ![p].pkg = s3[proc[p].did],
                                 ![p].want = plain[proc[p].did]]
               ELSE Finish(p, Response(404, "Document not found"))
    /\ s3' = [id \in DOMAIN s3 \ {proc[p].did} |-> s3[id]]
    /\ UNCHANGED <<keys, now, access_logs, key_rotations, usageThreshold,
                   minActiveKeys, uuids, kms, budget, pool0, lastPass, selections, plain>>

\* s3_client.get_object; any failure becomes ValueError, which
\* handle_decrypt answers with 404
GetObject(p) ==
    /\ proc[p].op = "decrypt" /\ proc[p].pc = "get"
    /\ proc' = IF proc[p].did \in DOMAIN s3
               THEN [proc EXCEPT ![p].pc = "getkey", ![p].pkg = s3[proc[p].did],
                                 ![p].want = plain[proc[p].did]]
               ELSE Finish(p, Response(404, "Document not found"))
    /\ UNCHANGED <<keys, now, s3, access_logs, key_rotations, usageThreshold,
                   minActiveKeys, uuids, kms, budget, pool0, lastPass, selections, plain>>

\* SELECT ... WHERE id = :key_id, with the status column
KeyById(ks, id) == [KeyDict(ks, id) EXCEPT !.status = ks[id].status]

\* the blocks AES-CBC decryption returns for a package under a shared secret
DecryptedBlocks(pkg, shared_secret) ==
    AesCbcDecrypt(Sha256(shared_secret), B64Decode(pkg.iv), B64Decode(pkg.encrypted_data))

\* ML-KEM-768 decapsulation with the private key of the record
UnifiedSharedSecret(key, pkg) ==
    KemDecrypt(B64Decode(key.private_key), B64Decode(pkg.ciphertext))

\* a decrypt_document that takes another key when the package's key is not
\* in the table
DecryptWithFallbackKey(p) ==
    /\ proc[p].op = "decrypt" /\ proc[p].pc = "getkey"
    /\ \E id \in IF proc[p].pkg.key_id \in DOMAIN keys THEN {proc[p].pkg.key_id}
                  ELSE DOMAIN keys \cup {0} :
          IF id = 0
          THEN proc' = Finish(p, Response(404, "Encryption key not found"))
          ELSE LET key == KeyById(keys, id)
                   padded == DecryptedBlocks(proc[p].pkg, UnifiedSharedSecret(key, proc[p].pkg))
               IN \E out \in UnpadOutcomes(padded) :
                    proc' = IF out.ok
                            THEN [proc EXCEPT ![p].pc = "log", ![p].key = key,
                                              ![p].doc = out.data]
                            ELSE [Finish(p, Response(404, "Invalid padding bytes."))
                                    EXCEPT ![p].key = key]
    /\ UNCHANGED <<keys, now, s3, access_logs, key_rotations, usageThreshold,
                   minActiveKeys, uuids, kms, budget, pool0, lastPass, selections, plain>>

\* a decrypt_document whose decapsulation reports a ciphertext that is not
\* an encapsulation under the key
DecryptWithKeyTelling(p) ==
    /\ proc[p].op = "decrypt" /\ proc[p].pc = "getkey"
    /\ IF proc[p].pkg.key_id \notin DOMAIN keys
       THEN proc' = Finish(p, Response(404, "Encryption key not found"))
       ELSE LET key == KeyById(keys, proc[p].pkg.key_id)
                padded == DecryptedBlocks(proc[p].pkg, UnifiedSharedSecret(key, proc[p].pkg))
            IN IF padded = Scrambled
               THEN proc' = [Finish(p, Response(500, "Decapsulation failed"))
                               EXCEPT ![p].key = key]
               ELSE \E out \in UnpadOutcomes(padded) :
                      proc' = IF out.ok
                              THEN [proc EXCEPT ![p].pc = "log", ![p].key = key,
                                                ![p].doc = out.data]
                              ELSE [Finish(p, Response(404, "Invalid padding bytes."))
                                      EXCEPT ![p].key = key]
    /\ UNCHANGED <<keys, now, s3, access_logs, key_rotations, usageThreshold,
                   minActiveKeys, uuids, kms, budget, pool0, lastPass, selections, plain>>

\* decrypt_document from the key lookup to the unpadding: the status read
\* with the key is not looked at
DecryptWithKey(p) ==
    /\ proc[p].op = "decrypt" /\ proc[p].pc = "getkey"
    /\ IF proc[p].pkg.key_id \notin DOMAIN keys
       THEN proc' = Finish(p, Response(404, "Encryption key not found"))
       ELSE LET key == KeyById(keys, proc[p].pkg.key_id)
                padded == DecryptedBlocks(proc[p].pkg, UnifiedSharedSecret(key, proc[p].pkg))
            IN \E out \in UnpadOutcomes(padded) :
                 proc' = IF out.ok
                         THEN [proc EXCEPT ![p].pc = "log", ![p].key = key,
                                           ![p].doc = out.data]
                         ELSE [Finish(p, Response(404, "Invalid padding bytes."))
                                 EXCEPT ![p].key = key]
    /\ UNCHANGED <<keys, now, s3, access_logs, key_rotations, usageThreshold,
                   minActiveKeys, uuids, kms, budget, pool0, lastPass, selections, plain>>

\* GET /decrypt/<id> with a body that names the output format
StartDecryptFormat(p, document_id, output_format) ==
    /\ Begin(p, [IdleProc EXCEPT !.op = "decrypt", !.pc = "get", !.did = document_id,
                                 !.output_format = output_format])
    /\ UNCHANGED <<keys, now, s3, access_logs, key_rotations, usageThreshold,
                   minActiveKeys, uuids, kms, pool0, lastPass, selections, plain>>

----------------------------------------------------------------------------
(* Decryption: retrieve_lambda lambda_handler / decrypt_document. The      *)
(* caller hands in a package it downloaded from the bucket.                *)

StartRetrieve(p, object_id) ==
    /\ object_id \in DOMAIN s3
    /\ Begin(p, [IdleProc EXCEPT !.op = "retrieve", !.pc = "getkey",
                                 !.pkg = s3[object_id], !.want = plain[object_id],
                                 !.did = s3[object_id].metadata.document_id])
    /\ UNCHANGED <<keys, now, s3, access_logs, key_rotations, usageThreshold,
                   minActiveKeys, uuids, kms, pool0, lastPass, selections, plain>>

\* get_key_by_id's status check
KeyUsable(status) == status = "active" \/ status = "rotation_queued"

\* "simulate the decapsulation": a digest of the ciphertext and the public key
RetrieveSharedSecret(key, pkg) ==
    SimulatedDecapsulate(B64Decode(pkg.ciphertext), B64Decode(key.public_key))

\* decrypt_document from get_key_by_id to the unpadding; every exception is
\* answered with 500 by lambda_handler
RetrieveWithKey(p) ==
    /\ proc[p].op = "retrieve" /\ proc[p].pc = "getkey"
    /\ IF proc[p].pkg.key_id \notin DOMAIN keys
       THEN proc' = Finish(p, Response(500, "Key not found"))
       ELSE LET key == KeyById(keys, proc[p].pkg.key_id)
                padded == DecryptedBlocks(proc[p].pkg, RetrieveSharedSecret(key, proc[p].pkg))
            IN IF ~KeyUsable(key.status)
               THEN proc' = [Finish(p, Response(500, "Key is not active")) EXCEPT ![p].key = key]
               ELSE \E out \in UnpadOutcomes(padded) :
                      proc' = IF ~out.ok
                              THEN [Finish(p, Response(500, "Invalid padding bytes."))
                                      EXCEPT ![p].key = key]
                              ELSE IF proc[p].did # 0
                              THEN [proc EXCEPT ![p].pc = "log", ![p].key = key,
                                                ![p].doc = out.data]
                              ELSE [Finish(p, [Response(200, "") EXCEPT !.data = out.data])
                                      EXCEPT ![p].key = key, ![p].doc = out.data]
    /\ UNCHANGED <<keys, now, s3, access_logs, key_rotations, usageThreshold,
                   minActiveKeys, uuids, kms, budget, pool0, lastPass, selections, plain>>

\* log_document_access: INSERT ... VALUES (:document_id, 'download')
LogDocumentAccess(p) ==
    /\ proc[p].op = "retrieve" /\ proc[p].pc = "log"
    /\ access_logs' = Append(access_logs, LogEntry(proc[p].did, "download", 0))
    /\ proc' = Finish(p, AfterLog(p))
    /\ UNCHANGED <<keys, now, s3, key_rotations, usageThreshold,
                   minActiveKeys, uuids, kms, budget, pool0, lastPass, selections, plain>>

\* the connection or the INSERT of log_document_access raises: there is no
\* except clause, and lambda_handler answers 500
LogDocumentAccessFails(p) ==
    /\ proc[p].op = "retrieve" /\ proc[p].pc = "log"
    /\ proc' = Finish(p, Response(500, "insert failed"))
    /\ UNCHANGED <<keys, now, s3, access_logs, key_rotations, usageThreshold,
                   minActiveKeys, uuids, kms, budget, pool0, lastPass, selections, plain>>

----------------------------------------------------------------------------
(* Rotation pass: rotate_keys lambda_handler / rotate_keys                 *)

StartRotate(p) ==
    /\ Begin(p, [IdleProc EXCEPT !.op = "rotate", !.pc = "queue", !.since = now])
    /\ UNCHANGED <<keys, now, s3, access_logs, key_rotations, usageThreshold,
                   minActiveKeys, uuids, kms, pool0, lastPass, selections, plain>>

\* the usage trigger with a strict comparison
DueForRotationStrict(row, t) ==
    /\ row.status = "active"
    /\ \/ row.created_at < t - ROTATE_AGE_DAYS
       \/ row.usage_count > USAGE_LIMIT

\* WHERE status = 'active' AND (created_at < CURRENT_TIMESTAMP - INTERVAL
\* '{ROTATE_AGE_DAYS} days' OR usage_count >= 1000)
DueForRotation(row, t) ==
    /\ row.status = "active"
    /\ \/ row.created_at < t - ROTATE_AGE_DAYS
       \/ row.usage_count >= USAGE_LIMIT

\* a queueing UPDATE without the status condition
QueueAnyStatus(ks, t) ==
    [i \in DOMAIN ks |->
        IF ks[i].created_at < t - ROTATE_AGE_DAYS \/ ks[i].usage_count >= USAGE_LIMIT
        THEN [ks[i] EXCEPT !.status = "rotation_queued"]
        ELSE ks[i]]

QueueDueKeys(ks, t) ==
    [i \in DOMAIN ks |->
        IF DueForRotation(ks[i], t) THEN [ks[i] EXCEPT !.status = "rotation_queued"]
        ELSE ks[i]]

RotateQueue(p) ==
    /\ proc[p].op = "rotate" /\ proc[p].pc = "queue"
    /\ keys' = QueueDueKeys(keys, now)
    /\ proc' = [proc EXCEPT ![p].pc = "count"]
    /\ UNCHANGED <<now, s3, access_logs, key_rotations, usageThreshold,
                   minActiveKeys, uuids, kms, budget, pool0, lastPass, selections, plain>>

\* a backfill that does not look at the count
BackfillAlways(active_count) == minActiveKeys

\* SELECT COUNT(*) ... WHERE status = 'active', and the range of the loop
Backfill(active_count) ==
    IF active_count < minActiveKeys THEN minActiveKeys - active_count ELSE 0

RotateCount(p) ==
    /\ proc[p].op = "rotate" /\ proc[p].pc = "count"
    /\ LET n == Backfill(Cardinality(ActiveIds(keys)))
       IN proc' = [proc EXCEPT ![p].pc = IF n > 0 THEN "create" ELSE "expire",
                               ![p].n = n]
    /\ UNCHANGED <<keys, now, s3, access_logs, key_rotations, usageThreshold,
                   minActiveKeys, uuids, kms, budget, pool0, lastPass, selections, plain>>

\* a create_key that inserts the pair of the newest record again
InsertCopiedKey(ks, t) ==
    Append(ks, KeyRow(IF ks = <<>> THEN 1 ELSE Len(ks), 0, "active", 0, t))

\* create_key(conn): INSERT ... VALUES (:public_key, :private_key, 'active', 0);
\* no KMS key is made, so kms_key_id is NULL
InsertRotationKey(ks, t) ==
    Append(ks, KeyRow(Len(ks) + 1, 0, "active", 0, t))

RotateCreateKey(p) ==
    /\ proc[p].op = "rotate" /\ proc[p].pc = "create"
    /\ keys' = InsertRotationKey(keys, now)
    /\ proc' = [proc EXCEPT ![p].n = @ - 1,
                            ![p].pc = IF proc[p].n = 1 THEN "expire" ELSE "create",
                            ![p].made = @ + 1]
    /\ UNCHANGED <<now, s3, access_logs, key_rotations, usageThreshold,
                   minActiveKeys, uuids, kms, budget, pool0, lastPass, selections, plain>>

\* the statements of a pass run in autocommit mode and lambda_handler has
\* no rollback: what an exception leaves in the table is what was there
Unrolled(ks) ==
    [i \in DOMAIN ks |->
        IF ks[i].status = "rotation_queued" THEN [ks[i] EXCEPT !.status = "active"]
        ELSE ks[i]]

CommittedAtFailure(ks) == ks

\* create_key raises (the INSERT or the key generation fails): rotate_keys
\* does not catch it, lambda_handler prints the error metric and re-raises
RotateCreateKeyFails(p) ==
    /\ proc[p].op = "rotate" /\ proc[p].pc = "create"
    /\ keys' = CommittedAtFailure(keys)
    /\ proc' = Finish(p, Response(500, "create_key failed"))
    /\ UNCHANGED <<now, s3, access_logs, key_rotations, usageThreshold,
                   minActiveKeys, uuids, kms, budget, pool0, lastPass, selections, plain>>

\* the expiry trigger with the boundary day included
DueForExpiryInclusive(row, t) ==
    /\ row.status = "rotation_queued"
    /\ row.created_at <= t - DEACTIVATE_AFTER_DAYS

\* WHERE status = 'rotation_queued' AND created_at < CURRENT_TIMESTAMP -
\* INTERVAL '{DEACTIVATE_AFTER_DAYS} days'
DueForExpiry(row, t) ==
    /\ row.status = "rotation_queued"
    /\ row.created_at < t - DEACTIVATE_AFTER_DAYS

\* an expiry that wipes the private key of the keys it expires
ExpireAndWipeKeys(ks, t) ==
    [i \in DOMAIN ks |->
        IF DueForExpiry(ks[i], t)
        THEN [ks[i] EXCEPT !.status = "expired", !.private_key = B64Encode([sk |-> 0])]
        ELSE ks[i]]

ExpireDueKeys(ks, t) ==
    [i \in DOMAIN ks |->
        IF DueForExpiry(ks[i], t) THEN [ks[i] EXCEPT !.status = "expired"]
        ELSE ks[i]]

RotateExpire(p) ==
    /\ proc[p].op = "rotate" /\ proc[p].pc = "expire"
    /\ keys' = ExpireDueKeys(keys, now)
    /\ proc' = [proc EXCEPT ![p].pc = "metric"]
    /\ UNCHANGED <<now, s3, access_logs, key_rotations, usageThreshold,
                   minActiveKeys, uuids, kms, budget, pool0, lastPass, selections, plain>>

\* lambda_handler: the active count it prints as a metric, then 200
RotateMetric(p) ==
    /\ proc[p].op = "rotate" /\ proc[p].pc = "metric"
    /\ proc' = [Finish(p, Response(200, "")) EXCEPT ![p].n = Cardinality(ActiveIds(keys))]
    /\ lastPass' = IF proc[p].since = now THEN now ELSE -1
    /\ UNCHANGED <<keys, now, s3, access_logs, key_rotations, usageThreshold,
                   minActiveKeys, uuids, kms, budget, pool0, selections, plain>>

----------------------------------------------------------------------------
(* store_lambda check_for_keys_to_rotate                                   *)

StartCheckRotate(p) ==
    /\ Begin(p, [IdleProc EXCEPT !.op = "check_rotate", !.pc = "find"])
    /\ UNCHANGED <<keys, now, s3, access_logs, key_rotations, usageThreshold,
                   minActiveKeys, uuids, kms, pool0, lastPass, selections, plain>>

\* find_keys_for_rotation() is defined by the schema, which is not part of
\* the sources: the active keys past the age trigger of spec.md §4.2, the
\* "keys that need to be rotated (older than 30 days)" of the docstring
KeysForRotation(ks, t) ==
    {i \in DOMAIN ks : ks[i].status = "active" /\ ks[i].created_at < t - ROTATE_AGE_DAYS}

FirstRows(s, n) == IF Len(s) <= n THEN s ELSE SubSeq(s, 1, n)

\* SELECT * FROM find_keys_for_rotation() LIMIT 10
FindKeysForRotation(p) ==
    /\ proc[p].op = "check_rotate" /\ proc[p].pc = "find"
    /\ LET rows == FirstRows(SetToSeq(KeysForRotation(keys, now)), RotationBatch)
       IN proc' = IF rows = <<>> THEN Finish(p, Response(200, ""))
                  ELSE [proc EXCEPT ![p].pc = "create", ![p].rows = rows]
    /\ UNCHANGED <<keys, now, s3, access_logs, key_rotations, usageThreshold,
                   minActiveKeys, uuids, kms, budget, pool0, lastPass, selections, plain>>

\* new_key = create_new_key(conn)
CheckCreateKey(p) ==
    /\ proc[p].op = "check_rotate" /\ proc[p].pc = "create"
    /\ kms' = kms + 1
    /\ keys' = InsertNewKey(keys, kms', now)
    /\ proc' = [proc EXCEPT ![p].pc = "update", ![p].n = Len(keys')]
    /\ UNCHANGED <<now, s3, access_logs, key_rotations, usageThreshold,
                   minActiveKeys, uuids, budget, pool0, lastPass, selections, plain>>

\* UPDATE encryption_keys SET status = 'rotation_queued' WHERE id = :key_id
MarkRotationQueued(ks, id) == [ks EXCEPT ![id].status = "rotation_queued"]

\* INSERT INTO key_rotations, then the UPDATE of the old key: no handler
\* reads key_rotations, so the two statements are taken as one step
CheckQueueKey(p) ==
    /\ proc[p].op = "check_rotate" /\ proc[p].pc = "update"
    /\ key_rotations' = Append(key_rotations,
           [old_key_id |-> Head(proc[p].rows), new_key_id |-> proc[p].n,
            status |-> "pending"])
    /\ keys' = MarkRotationQueued(keys, Head(proc[p].rows))
    /\ proc' = IF Len(proc[p].rows) = 1
               THEN Finish(p, Response(200, ""))
               ELSE [proc EXCEPT ![p].pc = "create", ![p].rows = Tail(@)]
    /\ UNCHANGED <<now, s3, access_logs, usageThreshold,
                   minActiveKeys, uuids, kms, budget, pool0, lastPass, selections, plain>>

----------------------------------------------------------------------------
(* unified_api POST /admin/rotate-keys                                     *)

\* handle_key_rotation: the whole handler is the return of its answer, 200
\* with the message 'Key rotation initiated'
HandleKeyRotation(p) ==
    /\ Begin(p, [IdleProc EXCEPT !.op = "admin_rotate", !.pc = "done",
                                 !.res = Response(200, "")])
    /\ UNCHANGED <<keys, now, s3, access_logs, key_rotations, usageThreshold,
                   minActiveKeys, uuids, kms, pool0, lastPass, selections, plain>>

\* the routes of unified_api lambda_handler; "/decrypt/" stands for every
\* path that starts with it
Routed(http_method, path) ==
    \/ http_method = "POST" /\ path = "/encrypt"
    \/ http_method = "GET" /\ path = "/decrypt/"
    \/ http_method = "POST" /\ path = "/admin/rotate-keys"

\* json.loads(body) for a body that is a string and not empty: "{" stands
\* for a text that is no JSON
JsonLoads(body) == IF body = "{" THEN [ok |-> FALSE] ELSE [ok |-> TRUE]

\* lambda_handler for a method and path that no route takes: the body is
\* parsed before the routes are looked at, and the exception of json.loads
\* is answered by the handler's except clause with 500
LambdaHandlerUnrouted(p, http_method, path, body) ==
    /\ ~Routed(http_method, path)
    /\ Begin(p, [IdleProc EXCEPT !.op = "unrouted", !.pc = "done",
                                 !.res = IF JsonLoads(body).ok
                                         THEN Response(404, "Endpoint not found")
                                         ELSE Response(500, "JSONDecodeError")])
    /\ UNCHANGED <<keys, now, s3, access_logs, key_rotations, usageThreshold,
                   minActiveKeys, uuids, kms, pool0, lastPass, selections, plain>>

----------------------------------------------------------------------------
(* generate_keys.py, the operator's key generation tool                    *)

\* keys = generate_multiple_keys(3); show_key_pool_status only reads
StartGenerateKeys(p) ==
    /\ Begin(p, [IdleProc EXCEPT !.op = "generate", !.pc = "store", !.n = GENERATE_COUNT])
    /\ UNCHANGED <<keys, now, s3, access_logs, key_rotations, usageThreshold,
                   minActiveKeys, uuids, kms, pool0, lastPass, selections, plain>>

\* INSERT ... VALUES (:public_key, :private_key, :kms_key_id, :kms_key_arn,
\* 'active', 0)
InsertGeneratedKey(ks, kms_key_id, t) ==
    Append(ks, KeyRow(Len(ks) + 1, kms_key_id, "active", 0, t))

\* one turn of the loop of generate_multiple_keys: generate_secure_key_pair,
\* create_kms_key (which answers None, None when KMS fails: kms_ok is
\* FALSE), and store_key_in_database
StoreKeyInDatabase(p, kms_ok) ==
    /\ proc[p].op = "generate" /\ proc[p].pc = "store"
    /\ kms' = IF kms_ok THEN kms + 1 ELSE kms
    /\ keys' = InsertGeneratedKey(keys, IF kms_ok THEN kms' ELSE 0, now)
    /\ proc' = IF proc[p].n = 1 THEN Finish(p, NoRes)
               ELSE [proc EXCEPT ![p].n = @ - 1]
    /\ UNCHANGED <<now, s3, access_logs, key_rotations, usageThreshold,
                   minActiveKeys, uuids, budget, pool0, lastPass, selections, plain>>

----------------------------------------------------------------------------
(* The environment *)

\* the package as encrypt_document made it: nothing of it has been changed
Intact(pkg) ==
    LET c == B64Decode(pkg.encrypted_data)
    IN /\ \A j \in DOMAIN c.delta : c.delta[j] = 0
       /\ B64Decode(pkg.iv) = c.iv
       /\ B64Decode(pkg.ciphertext).r # 0
       /\ pkg.key_id = c.aes_key.sha256.pair

\* someone with access to the bucket flips one bit of encrypted_data
TamperEncryptedData(id, pos, bit) ==
    /\ id \in DOMAIN s3 /\ Intact(s3[id])
    /\ pos \in DOMAIN B64Decode(s3[id].encrypted_data).delta
    /\ s3' = [s3 EXCEPT ![id].encrypted_data =
                 B64Encode([B64Decode(@) EXCEPT !.delta[pos] = 2 ^ bit])]
    /\ UNCHANGED <<keys, now, access_logs, key_rotations, proc, usageThreshold,
                   minActiveKeys, uuids, kms, budget, pool0, lastPass, selections, plain>>

\* ... or one bit of iv
TamperIv(id, pos, bit) ==
    /\ id \in DOMAIN s3 /\ Intact(s3[id])
    /\ pos \in 1..BlockSize
    /\ s3' = [s3 EXCEPT ![id].iv =
                 B64Encode([B64Decode(@) EXCEPT ![pos] = Xor(@, 2 ^ bit)])]
    /\ UNCHANGED <<keys, now, access_logs, key_rotations, proc, usageThreshold,
                   minActiveKeys, uuids, kms, budget, pool0, lastPass, selections, plain>>

\* ... or changes the KEM ciphertext: it is no longer the encapsulation of
\* the secret the document was encrypted under
TamperCiphertext(id) ==
    /\ id \in DOMAIN s3 /\ Intact(s3[id])
    /\ s3' = [s3 EXCEPT ![id].ciphertext = B64Encode([B64Decode(@) EXCEPT !.r = 0])]
    /\ UNCHANGED <<keys, now, access_logs, key_rotations, proc, usageThreshold,
                   minActiveKeys, uuids, kms, budget, pool0, lastPass, selections, plain>>

\* ... or writes a key_id that no row of encryption_keys has
TamperKeyId(id) ==
    /\ id \in DOMAIN s3 /\ Intact(s3[id])
    /\ s3' = [s3 EXCEPT ![id].key_id = Len(keys) + 1]
    /\ UNCHANGED <<keys, now, access_logs, key_rotations, proc, usageThreshold,
                   minActiveKeys, uuids, kms, budget, pool0, lastPass, selections, plain>>

\* a day passes
Tick ==
    /\ now < Day0 + MaxTicks
    /\ now' = now + 1
    /\ lastPass' = -1
    /\ UNCHANGED <<keys, s3, access_logs, key_rotations, proc, usageThreshold,
                   minActiveKeys, uuids, kms, budget, pool0, selections, plain>>

\* the handler returns its response and the worker is free again
Return(p) ==
    /\ proc[p].pc = "done"
    /\ proc' = [proc EXCEPT ![p] = IdleProc]
    /\ UNCHANGED <<keys, now, s3, access_logs, key_rotations, usageThreshold,
                   minActiveKeys, uuids, kms, budget, pool0, lastPass, selections, plain>>

----------------------------------------------------------------------------
(* Initial states and specifications *)

\* a pool from row descriptions <<status, usage_count, age in days, made
\* with a KMS key>>; rows are numbered in insertion order
Pool(d) ==
    [i \in DOMAIN d |->
        KeyRow(i, IF d[i][4] THEN i ELSE 0, d[i][1], d[i][2], Day0 - d[i][3])]

\* a row the program can have produced: queued only past a trigger, expired
\* only past the expiry age
ReachableRow(d) ==
    /\ d[1] = "rotation_queued" => (d[3] > ROTATE_AGE_DAYS \/ d[2] >= USAGE_LIMIT)
    /\ d[1] = "expired" => d[3] > DEACTIVATE_AFTER_DAYS

Rows(S, U, A, K) == {d \in S \X U \X A \X K : ReachableRow(d)}

\* rows are inserted in the order of their created_at
InsertionOrdered(d) == \A i, j \in DOMAIN d : i < j => d[i][3] >= d[j][3]

PoolsUpTo(n, rows) ==
    UNION {{Pool(d) : d \in {e \in [1..m -> rows] : InsertionOrdered(e)}} : m \in 0..n}

\* floor is the MIN_ACTIVE_KEYS the rotation lambda is deployed with
InitConfigured(pool, threshold, floor, nprocs, nops, nticks) ==
    /\ keys = pool
    /\ now = Day0
    /\ s3 = <<>>
    /\ access_logs = <<>>
    /\ key_rotations = <<>>
    /\ proc = [p \in 1..nprocs |-> IdleProc]
    /\ usageThreshold = threshold
    /\ minActiveKeys = floor
    /\ uuids = 0
    /\ kms = Len(pool)
    /\ budget = [ops |-> nops, ticks |-> nticks]
    /\ pool0 = [keys |-> Len(pool), active |-> Cardinality(ActiveIds(pool)),
                usage |-> SumUsage(pool)]
    /\ selections = 0
    /\ plain = <<>>
    /\ lastPass = -1

\* the deployment with the default MIN_ACTIVE_KEYS
InitState(pool, threshold, nprocs, nops, nticks) ==
    InitConfigured(pool, threshold, MIN_ACTIVE_KEYS, nprocs, nops, nticks)

Procs == DOMAIN proc

\* documents: every length from empty to one byte too long, and two of
\* mixed bytes
Docs == {Rep(b, n) : b \in Bytes, n \in 0..(MaxDocLen + 1)} \cup {<<65, 200>>, <<200, 1>>}

ObjectIds == CallerIds \cup ObjectKeys \cup {UuidBase + 1}

\* the whole system: every handler, from a pool of at most one key
FullDocs == {Rep(65, n) : n \in {0, 1, MaxDocLen + 1}}
FullRows == Rows(Statuses, {0}, {DEACTIVATE_AFTER_DAYS}, {TRUE})

Init == \E pool \in PoolsUpTo(1, FullRows) : InitState(pool, USAGE_LIMIT, NProcs, MaxOps, MaxTicks)

Next ==
    \/ \E p \in Procs, d \in FullDocs, id \in CallerIds \cup {0} : StartEncrypt(p, d, id)
    \/ \E p \in Procs, d \in FullDocs, k \in ObjectKeys : StartStoreEncrypt(p, d, k)
    \/ \E p \in Procs : SelectKey(p)
    \/ \E p \in Procs : UpdateUsage(p)
    \/ \E p \in Procs : CreateNewKey(p)
    \/ \E p \in Procs, r \in Rand, iv \in Rand : PutObject(p, r, iv)
    \/ \E p \in Procs, r \in Rand, iv \in Rand : StorePutObject(p, r, iv)
    \/ \E p \in Procs : LogOperation(p)
    \/ \E p \in Procs : LogOperationFails(p)
    \/ \E p \in Procs : LogConnectFails(p)
    \/ \E p \in Procs, id \in ObjectIds : StartDecrypt(p, id)
    \/ \E p \in Procs : GetObject(p)
    \/ \E p \in Procs : DecryptWithKey(p)
    \/ \E p \in Procs, id \in ObjectIds : StartRetrieve(p, id)
    \/ \E p \in Procs : RetrieveWithKey(p)
    \/ \E p \in Procs : LogDocumentAccess(p)
    \/ \E p \in Procs : LogDocumentAccessFails(p)
    \/ \E p \in Procs : StartRotate(p)
    \/ \E p \in Procs : RotateQueue(p)
    \/ \E p \in Procs : RotateCount(p)
    \/ \E p \in Procs : RotateCreateKey(p)
    \/ \E p \in Procs : RotateCreateKeyFails(p)
    \/ \E p \in Procs : RotateExpire(p)
    \/ \E p \in Procs : RotateMetric(p)
    \/ \E p \in Procs : StartCheckRotate(p)
    \/ \E p \in Procs : FindKeysForRotation(p)
    \/ \E p \in Procs : CheckCreateKey(p)
    \/ \E p \in Procs : CheckQueueKey(p)
    \/ \E p \in Procs : HandleKeyRotation(p)
    \/ \E p \in Procs : Return(p)
    \/ Tick

Spec == Init /\ [][Next]_vars

----------------------------------------------------------------------------
(* Concurrent key selections: encryptions through both lambdas, no rotation *)

SelProcs == 2
SelDocs == {<<65>>}
SelRows == Rows({"active", "rotation_queued"}, {0, 1}, {0, ROTATE_AGE_DAYS + 1}, {TRUE})

InitSelect == \E pool \in PoolsUpTo(2, SelRows) : InitState(pool, USAGE_LIMIT, SelProcs, SelProcs, 0)

NextSelect ==
    \/ \E p \in Procs, d \in SelDocs, id \in CallerIds : StartEncrypt(p, d, id)
    \/ \E p \in Procs, d \in SelDocs, k \in ObjectKeys : StartStoreEncrypt(p, d, k)
    \/ \E p \in Procs : SelectKey(p)
    \/ \E p \in Procs : UpdateUsage(p)
    \/ \E p \in Procs : CreateNewKey(p)
    \/ \E p \in Procs : PutObject(p, 1, 1)
    \/ \E p \in Procs : StorePutObject(p, 1, 1)
    \/ \E p \in Procs : LogOperation(p)
    \/ \E p \in Procs : Return(p)

SpecSelect == InitSelect /\ [][NextSelect]_vars

\* a selection that has returned its key
Selected(p) == Selecting(p) /\ proc[p].pc \in {"put", "log", "done"} /\ proc[p].key.id # 0

\* C1: with an active key in the pool and no rotation, every selection that
\* returns has raised the sum of usage_count by one: k selections, in any
\* interleaving, raise it by exactly k, and none of them creates a key
C1_NoLostIncrement ==
    pool0.active > 0 =>
        /\ SumUsage(keys) = pool0.usage + selections
        /\ Len(keys) = pool0.keys

\* two selections read the same key at the same usage_count and both have
\* written
C1_Witness ==
    /\ pool0.active > 0
    /\ selections = SelProcs
    /\ \E p, q \in Procs :
         /\ p # q /\ Selected(p) /\ Selected(q)
         /\ proc[p].key.id = proc[q].key.id
         /\ proc[p].key.usage_seen = proc[q].key.usage_seen

\* no handler but p's is running
Alone(p) == \A q \in Procs \ {p} : proc[q].op = "idle"

EarliestLeastUsed(ks) ==
    {i \in LeastUsedActive(ks) : \A j \in LeastUsedActive(ks) : ks[i].created_at <= ks[j].created_at}

\* C2: run alone, a selection on a non-empty active set takes a least-used
\* active key, the earliest created of those, then raises that key's
\* usage_count by one and changes no other key
C2_LeastUsedEarliest ==
    [][\A p \in Procs : Alone(p) =>
         /\ (proc[p].pc = "select" /\ proc'[p].pc = "update")
               => proc'[p].key.id \in EarliestLeastUsed(keys)
         /\ (proc[p].pc = "update" /\ proc'[p].pc = "put")
               => keys' = [keys EXCEPT ![proc[p].key.id].usage_count = @ + 1]]_vars

----------------------------------------------------------------------------
(* Key status *)

Rank(status) ==
    CASE status = "active" -> 1
      [] status = "rotation_queued" -> 2
      [] status = "expired" -> 3

\* C3: in every step, whatever handlers are running, no key's status moves
\* back along active -> rotation_queued -> expired, and none goes from
\* active to expired in one step
C3_StatusForwardOnly ==
    [][\A i \in DOMAIN keys :
         /\ Rank(keys'[i].status) >= Rank(keys[i].status)
         /\ ~(keys[i].status = "active" /\ keys'[i].status = "expired")]_vars

\* an encryption that holds the key it selected and has not returned
InFlight(q) == Selecting(q) /\ proc[q].pc \in {"update", "put", "log"} /\ proc[q].key.id # 0

\* C6: when a rotation pass ends while an encryption holds a key it selected
\* as active, that key is still usable for decryption (active or
\* rotation_queued), so the package of that encryption can be decrypted after
\* the pass, however old the key is
C6_InFlightKeyStaysUsable ==
    [][\A p, q \in Procs :
         (/\ proc[p].op = "rotate" /\ proc[p].pc = "metric" /\ proc'[p].pc = "done"
          /\ InFlight(q))
            => KeyUsable(keys'[proc[q].key.id].status)]_vars

----------------------------------------------------------------------------
(* The unified API: encryptions, decryptions and rotation passes            *)

UniProcs == 1
UniOps == 3
UniDocs == {Rep(b, n) : b \in {1, 65}, n \in {0, 1, BlockSize, MaxDocLen, MaxDocLen + 1}}
UniRows == Rows({"active"}, {0}, {0, DEACTIVATE_AFTER_DAYS + 1}, {TRUE})

InitUnified == \E pool \in PoolsUpTo(1, UniRows) : InitState(pool, USAGE_LIMIT, UniProcs, UniOps, 0)

NextUnified ==
    \/ \E p \in Procs, d \in UniDocs, id \in CallerIds : StartEncrypt(p, d, id)
    \/ \E p \in Procs : SelectKey(p)
    \/ \E p \in Procs : UpdateUsage(p)
    \/ \E p \in Procs : CreateNewKey(p)
    \/ \E p \in Procs : PutObject(p, 1, 1)
    \/ \E p \in Procs : LogOperation(p)
    \/ \E p \in Procs, id \in CallerIds : StartDecrypt(p, id)
    \/ \E p \in Procs : GetObject(p)
    \/ \E p \in Procs : DecryptWithKey(p)
    \/ \E p \in Procs : StartRotate(p)
    \/ \E p \in Procs : RotateQueue(p)
    \/ \E p \in Procs : RotateCount(p)
    \/ \E p \in Procs : RotateCreateKey(p)
    \/ \E p \in Procs : RotateExpire(p)
    \/ \E p \in Procs : RotateMetric(p)
    \/ \E p \in Procs : Return(p)

SpecUnified == InitUnified /\ [][NextUnified]_vars

\* p's step from the key lookup to the end of the unpadding
KeyStep(p, op) == proc[p].op = op /\ proc[p].pc = "getkey" /\ proc'[p].pc # "getkey"

\* the step handed the document of the package on, and no error
Recovered(p) == proc'[p].pc \in {"log", "done"} /\ proc'[p].res.error = "" /\ proc'[p].doc = proc[p].want

\* C4: a decryption, through unified_api or retrieve_lambda, of a package
\* whose key is active or rotation_queued recovers the document
C4_DecryptableWhileUsable ==
    [][\A p \in Procs :
         (/\ KeyStep(p, "decrypt") \/ KeyStep(p, "retrieve")
          /\ KeyUsable(keys[proc[p].pkg.key_id].status))
            => Recovered(p)]_vars

\* C5: a decryption, through unified_api or retrieve_lambda, of a package
\* whose key is expired ends in an error and hands no plaintext on
C5_ExpiredRejected ==
    [][\A p \in Procs :
         (/\ KeyStep(p, "decrypt") \/ KeyStep(p, "retrieve")
          /\ keys[proc[p].pkg.key_id].status = "expired")
            => /\ proc'[p].pc = "done"
               /\ proc'[p].res.code \notin {0, 200}
               /\ proc'[p].doc = <<>>]_vars

\* C7: decrypt_document of a stored package recovers the document that
\* encrypt_document was given, and handle_decrypt answers 200 with it,
\* whatever the status of the key
C7_UnifiedRoundTrip ==
    [][\A p \in Procs :
         /\ KeyStep(p, "decrypt") => Recovered(p)
         /\ (proc[p].op = "decrypt" /\ proc[p].pc = "log" /\ proc'[p].pc = "done")
               => /\ proc'[p].res.code = 200
                  /\ proc'[p].res.data = proc[p].want]_vars

\* a decrypt has answered with a document of exactly one block whose last
\* byte is a padding byte
C7_Witness ==
    \E p \in Procs :
        /\ proc[p].op = "decrypt" /\ proc[p].pc = "done"
        /\ proc[p].res.code = 200
        /\ proc[p].res.data = proc[p].want
        /\ Len(proc[p].want) = BlockSize
        /\ proc[p].want[BlockSize] = 1

\* C8: retrieve_lambda, handed a package store_lambda made while its key is
\* active, derives the AES key the package was encrypted under and recovers
\* the document
C8_StoreRetrieveRoundTrip ==
    [][\A p \in Procs :
         (/\ KeyStep(p, "retrieve")
          /\ proc[p].pkg.metadata.document_id \in ObjectKeys
          /\ keys[proc[p].pkg.key_id].status = "active")
            => /\ Sha256(RetrieveSharedSecret(KeyById(keys, proc[p].pkg.key_id), proc[p].pkg))
                    = B64Decode(proc[p].pkg.encrypted_data).aes_key
               /\ Recovered(p)]_vars

----------------------------------------------------------------------------
(* Rotation passes on pools around the triggers                            *)

RotProcs == 1
RotUsages == {USAGE_LIMIT - 1, USAGE_LIMIT}
RotAges == {ROTATE_AGE_DAYS, ROTATE_AGE_DAYS + 1, DEACTIVATE_AFTER_DAYS + 1}
RotRows == Rows(Statuses, RotUsages, RotAges, {TRUE})
Thresholds == {USAGE_LIMIT - 1, USAGE_LIMIT, USAGE_LIMIT + 1}

InitRotate ==
    \E pool \in PoolsUpTo(2, RotRows), T \in Thresholds :
        InitState(pool, T, RotProcs, RotProcs, MaxTicks)

NextRotate ==
    \/ \E p \in Procs : StartRotate(p)
    \/ \E p \in Procs : RotateQueue(p)
    \/ \E p \in Procs : RotateCount(p)
    \/ \E p \in Procs : RotateCreateKey(p)
    \/ \E p \in Procs : RotateExpire(p)
    \/ \E p \in Procs : RotateMetric(p)
    \/ \E p \in Procs : Return(p)
    \/ Tick

SpecRotate == InitRotate /\ [][NextRotate]_vars

\* p's rotation pass takes a step
RotateStep(p) == proc[p].op = "rotate" /\ proc'[p] # proc[p]

\* C9: the queueing statement of a pass moves to rotation_queued exactly the
\* active keys created more than ROTATE_AGE_DAYS days ago or used 1000 times
\* or more; no step of the pass changes any other active key: it stays
\* active, with its usage_count
C9_QueuesExactlyDueKeys ==
    [][\A p \in Procs : RotateStep(p) =>
         \A i \in DOMAIN keys : keys[i].status = "active" =>
            IF /\ proc[p].pc = "queue"
               /\ \/ keys[i].created_at < now - ROTATE_AGE_DAYS
                  \/ keys[i].usage_count >= USAGE_LIMIT
            THEN keys'[i] = [keys[i] EXCEPT !.status = "rotation_queued"]
            ELSE keys'[i] = keys[i]]_vars

\* a pass has ended on a pool in which it queued a key for its usage alone,
\* at exactly the limit, and left a key one use below the limit and exactly
\* ROTATE_AGE_DAYS old active
C9_Witness ==
    \E p \in Procs, i, j \in DOMAIN keys :
        /\ proc[p].op = "rotate" /\ proc[p].pc = "done"
        /\ keys[i].status = "rotation_queued"
        /\ keys[i].usage_count = USAGE_LIMIT
        /\ keys[i].created_at >= now - ROTATE_AGE_DAYS
        /\ keys[j].status = "active"
        /\ keys[j].usage_count = USAGE_LIMIT - 1
        /\ keys[j].created_at = now - ROTATE_AGE_DAYS

\* C10: the queueing statement of a pass queues an active key that is not
\* past the age limit if and only if its usage_count has reached the
\* configured usageThreshold
C10_ConfiguredThreshold ==
    [][\A p \in Procs :
         (proc[p].op = "rotate" /\ proc[p].pc = "queue" /\ proc'[p].pc = "count") =>
            \A i \in DOMAIN keys :
               (keys[i].status = "active" /\ keys[i].created_at >= now - ROTATE_AGE_DAYS) =>
                  (keys'[i].status = "rotation_queued" <=> keys[i].usage_count >= usageThreshold)]_vars

----------------------------------------------------------------------------
(* Rotation passes one after the other: a single worker, nothing else      *)
(* running                                                                 *)

LoneOps == 2
LoneAges == {ROTATE_AGE_DAYS, ROTATE_AGE_DAYS + 1, DEACTIVATE_AFTER_DAYS, DEACTIVATE_AFTER_DAYS + 1}
LoneRows == Rows(Statuses, RotUsages, LoneAges, {TRUE})

InitLone == \E pool \in PoolsUpTo(2, LoneRows) : InitState(pool, USAGE_LIMIT, 1, LoneOps, MaxTicks)

NextLone ==
    \/ \E p \in Procs : StartRotate(p)
    \/ \E p \in Procs : RotateQueue(p)
    \/ \E p \in Procs : RotateCount(p)
    \/ \E p \in Procs : RotateCreateKey(p)
    \/ \E p \in Procs : RotateCreateKeyFails(p)
    \/ \E p \in Procs : RotateExpire(p)
    \/ \E p \in Procs : RotateMetric(p)
    \/ \E p \in Procs : Return(p)
    \/ Tick

SpecLone == InitLone /\ [][NextLone]_vars

\* a pass that has answered 200
Completed(p) == proc[p].op = "rotate" /\ proc[p].pc = "done" /\ proc[p].res.code = 200

FirstPass(p) == proc[p].op = "rotate" /\ budget.ops = LoneOps - 1

Backfilled(p) ==
    /\ proc[p].op = "rotate"
    /\ proc[p].pc \in {"expire", "metric"} \/ Completed(p)

\* the rows a pass that runs alone has inserted: the last ones of the table
MadeIds(p) == {i \in DOMAIN keys : i > Len(keys) - proc[p].made}

\* the key is no other row's key
FreshKey(ks, i) == \A j \in DOMAIN ks \ {i} : ks[j].public_key # ks[i].public_key

\* C12: a pass that runs alone and does not fail has, once its backfill is
\* over, created exactly max(0, MIN_ACTIVE_KEYS - active keys left by the
\* queueing) keys, each with a key pair of its own, status active and
\* usage_count 0; from a pool with no active key it leaves exactly
\* MIN_ACTIVE_KEYS active keys
C12_PoolFloor ==
    \A p \in Procs : Backfilled(p) =>
        LET created == proc[p].made
            active  == Cardinality(ActiveIds(keys))
        IN /\ created = Max(0, MIN_ACTIVE_KEYS - (active - created))
           /\ \A i \in MadeIds(p) :
                 /\ keys[i].status = "active"
                 /\ keys[i].usage_count = 0
                 /\ keys[i].created_at >= proc[p].since
                 /\ FreshKey(keys, i)
           /\ (FirstPass(p) /\ pool0.active = 0) => active = MIN_ACTIVE_KEYS

\* the first pass, on a pool with keys none of which is active, has ended
\* with MIN_ACTIVE_KEYS keys created
C12_Witness ==
    \E p \in Procs :
        /\ Completed(p) /\ FirstPass(p)
        /\ pool0.keys > 0 /\ pool0.active = 0
        /\ proc[p].made = MIN_ACTIVE_KEYS
        /\ Cardinality(ActiveIds(keys)) = MIN_ACTIVE_KEYS

\* a pass that runs, statement after statement, on the day on which a
\* completed pass began and ended: no time has elapsed since that pass, and
\* with one worker nothing else has run in between
RunsAgain(p) ==
    /\ proc[p].op = "rotate"
    /\ proc[p].pc \in {"queue", "count", "create", "expire", "metric"}
    /\ lastPass = now

\* C13: a pass run again right after a completed pass, with no time elapsed
\* and nothing in between, queues no key, creates no key and expires no key
C13_RotationIdempotent ==
    [][\A p \in Procs : (RunsAgain(p) /\ RotateStep(p)) =>
         /\ keys' = keys
         /\ proc'[p].pc # "create"]_vars

\* the second pass has run all its statements, after a first pass that
\* queued a key, expired a key and created keys
C13_Witness ==
    \E p \in Procs :
        /\ RunsAgain(p) /\ proc[p].pc = "metric"
        /\ pool0.keys > 0 /\ pool0.active = pool0.keys
        /\ Len(keys) > pool0.keys
        /\ \E i, j \in 1..pool0.keys :
              keys[i].status = "rotation_queued" /\ keys[j].status = "expired"

\* C14: when two rotation passes, the only invocations so far, have both
\* completed on a pool that had no active key, in whatever order their
\* statements ran, exactly MIN_ACTIVE_KEYS keys are active, as after the two
\* passes one after the other
C14_ConcurrentPassesAsSequential ==
    \A p, q \in Procs :
        (/\ p # q /\ Completed(p) /\ Completed(q)
         /\ budget.ops = MaxOps - 2
         /\ pool0.active = 0)
           => Cardinality(ActiveIds(keys)) = MIN_ACTIVE_KEYS

\* a pass that ended with the exception of create_key
Failed(p) == proc[p].op = "rotate" /\ proc[p].pc = "done" /\ proc[p].res.code = 500

\* C15: after a pass that ran alone has failed in its backfill, its queueing
\* is still in the table (no key that was due when the pass began is active
\* again), and the keys it had created before the failure are in the pool,
\* active
C15_FailureKeepsProgress ==
    \A p \in Procs : Failed(p) =>
        /\ \A i \in DOMAIN keys : ~DueForRotation(keys[i], proc[p].since)
        /\ Cardinality(MadeIds(p)) = proc[p].made
        /\ \A i \in MadeIds(p) : keys[i].status = "active" /\ keys[i].usage_count = 0

\* the first pass, on a pool whose keys were all active, has failed after it
\* queued a key and created one
C15_Witness ==
    \E p \in Procs :
        /\ Failed(p) /\ FirstPass(p)
        /\ pool0.active = pool0.keys
        /\ proc[p].made > 0
        /\ \E i \in 1..pool0.keys : keys[i].status = "rotation_queued"

\* C16: a pass ends only after its expiry statement and with the answer 200,
\* whether or not a creation of its backfill failed
C16_FailureDoesNotStopPass ==
    [][\A p \in Procs :
         (proc[p].op = "rotate" /\ proc[p].pc # "done" /\ proc'[p].pc = "done")
            => /\ proc[p].pc = "metric"
               /\ proc'[p].res.code = 200]_vars

----------------------------------------------------------------------------
(* The admin operation and the scheduled rotation pass. A handler that has *)
(* been invoked runs to its end; whether the schedule invokes rotate_keys  *)
(* is up to the environment.                                               *)

InitAdmin == \E pool \in PoolsUpTo(2, RotRows) : InitState(pool, USAGE_LIMIT, NProcs, MaxOps, 0)

NextAdmin ==
    \/ \E p \in Procs : HandleKeyRotation(p)
    \/ \E p \in Procs : StartRotate(p)
    \/ \E p \in Procs : RotateQueue(p)
    \/ \E p \in Procs : RotateCount(p)
    \/ \E p \in Procs : RotateCreateKey(p)
    \/ \E p \in Procs : RotateExpire(p)
    \/ \E p \in Procs : RotateMetric(p)
    \/ \E p \in Procs : Return(p)

FairAdmin ==
    \A p \in 1..NProcs :
        /\ WF_vars(RotateQueue(p))
        /\ WF_vars(RotateCount(p))
        /\ WF_vars(RotateCreateKey(p))
        /\ WF_vars(RotateExpire(p))
        /\ WF_vars(RotateMetric(p))
        /\ WF_vars(Return(p))

SpecAdmin == InitAdmin /\ [][NextAdmin]_vars /\ FairAdmin

\* the unified API has accepted a rotateKeys request
RotationAccepted ==
    \E p \in Procs : proc[p].op = "admin_rotate" /\ proc[p].res.code = 200

\* no active key is past the age or the usage trigger
NoKeyDue ==
    \A i \in DOMAIN keys :
        ~(/\ keys[i].status = "active"
          /\ \/ keys[i].created_at < now - ROTATE_AGE_DAYS
             \/ keys[i].usage_count >= USAGE_LIMIT)

C18_LogFailureNeverFails ==
    [][\A p \in Procs :
         (proc[p].pc = "log" /\ proc'[p].pc = "done") => proc'[p].res = AfterLog(p)]_vars

\* an encryption that has answered with its package
Encrypted(p) == Selected(p) /\ proc[p].pc = "done" /\ proc[p].res.error = ""

\* C19: after a successful encrypt the usage_count of the key its package
\* names is above what it was when the key was obtained (0 for a key this
\* encrypt created), and once no encrypt is running the usage counts of the
\* pool have gone up by one for each key obtained and by nothing else
C19_OneIncrementPerEncrypt ==
    /\ \A p \in Procs : Encrypted(p) =>
          keys[proc[p].pkg.key_id].usage_count >= proc[p].key.usage_seen + 1
    /\ (\A p \in Procs : proc[p].pc \in {"idle", "done"}) =>
          SumUsage(keys) = pool0.usage + selections

\* C20: an encrypt that finds no active key creates one key, active, and
\* comes by it through the selection: after the creation it selects again,
\* or holds the new key with its use counted
C20_CreatedKeySelected ==
    [][\A p \in Procs :
         (Selecting(p) /\ proc[p].pc = "create" /\ proc'[p].pc # "create") =>
            /\ Len(keys') = Len(keys) + 1
            /\ keys'[Len(keys')].status = "active"
            /\ \/ proc'[p].pc = "select"
               \/ /\ proc'[p].key.id = Len(keys')
                  /\ keys'[Len(keys')].usage_count = 1]_vars

----------------------------------------------------------------------------
(* Sequential encryptions from an empty pool, with MIN_ACTIVE_KEYS = 1:    *)
(* one worker runs the encryptions of unified_api, rotation passes and the *)
(* key generation tool one after the other.                                *)

FairOps == 6

InitFair == InitConfigured(<<>>, USAGE_LIMIT, 1, 1, FairOps, 0)

NextFair ==
    \/ \E p \in Procs, id \in CallerIds : StartEncrypt(p, <<65>>, id)
    \/ \E p \in Procs : SelectKey(p)
    \/ \E p \in Procs : UpdateUsage(p)
    \/ \E p \in Procs : CreateNewKey(p)
    \/ \E p \in Procs : PutObject(p, 1, 1)
    \/ \E p \in Procs : LogOperation(p)
    \/ \E p \in Procs : StartRotate(p)
    \/ \E p \in Procs : RotateQueue(p)
    \/ \E p \in Procs : RotateCount(p)
    \/ \E p \in Procs : RotateCreateKey(p)
    \/ \E p \in Procs : RotateExpire(p)
    \/ \E p \in Procs : RotateMetric(p)
    \/ \E p \in Procs : StartGenerateKeys(p)
    \/ \E p \in Procs : StoreKeyInDatabase(p, TRUE)
    \/ \E p \in Procs : Return(p)

SpecFair == InitFair /\ [][NextFair]_vars

CeilDiv(a, b) == (a + b - 1) \div b

\* C21 as stated: after N encryptions from the empty pool, whenever more
\* than one key is active no active key's usage_count is above
\* ceil(N / number of active keys) + 1
C21_UsageWithinFairShare ==
    LET active == ActiveIds(keys)
    IN Cardinality(active) > 1 =>
         \A i \in active :
            keys[i].usage_count <= CeilDiv(selections, Cardinality(active)) + 1

\* C21, amended: selection is least-used-first. Each of the sequential
\* encryptions that finds an active key increments a key whose usage_count
\* was the least of the active keys, by one, and changes no other key
C21_LeastUsedFirst ==
    [][\A p \in Procs :
         (Selecting(p) /\ proc[p].pc = "update" /\ proc'[p].pc = "put") =>
            LET id == proc[p].key.id
            IN /\ keys[id].status = "active"
               /\ \A j \in ActiveIds(keys) : keys[id].usage_count <= keys[j].usage_count
               /\ keys' = [keys EXCEPT ![id].usage_count = @ + 1]]_vars

\* an encryption has just incremented the least used key while another
\* active key, used before this one was created, is more than one above it
C21_Witness ==
    \E p \in Procs, j \in ActiveIds(keys) :
        /\ Selecting(p) /\ proc[p].pc = "put"
        /\ proc[p].key.id \in ActiveIds(keys)
        /\ keys[proc[p].key.id].usage_count = proc[p].key.usage_seen + 1
        /\ keys[j].usage_count > keys[proc[p].key.id].usage_count + 1
----------------------------------------------------------------------------
(* Every entry point, one invocation after the other: the encryptions of   *)
(* unified_api and store_lambda with documents around the size limit, the  *)
(* decryptions of unified_api and retrieve_lambda, rotation, and the key   *)
(* generation tool.                                                        *)

ApiOps == 2
ApiDocs == {Rep(65, n) : n \in {0, 1, MAX_DOCUMENT_SIZE_BYTES, MAX_DOCUMENT_SIZE_BYTES + 1}}
ApiRows == Rows(Statuses, {0, USAGE_LIMIT}, {DEACTIVATE_AFTER_DAYS + 1}, {TRUE})

ApiMethods == {"GET", "POST", "DELETE"}
ApiPaths == {"/encrypt", "/decrypt/", "/admin/rotate-keys", "/invalid"}
ApiBodies == {"", "{}", "{"}

InitApi == \E pool \in PoolsUpTo(1, ApiRows) : InitState(pool, USAGE_LIMIT, 1, ApiOps, 0)

NextApi ==
    \/ \E p \in Procs, d \in ApiDocs, id \in CallerIds \cup {0} : StartEncrypt(p, d, id)
    \/ \E p \in Procs, d \in ApiDocs, k \in ObjectKeys : StartStoreEncrypt(p, d, k)
    \/ \E p \in Procs, d \in ApiDocs : StartStoreDirect(p, d)
    \/ \E p \in Procs : SelectKey(p)
    \/ \E p \in Procs : UpdateUsage(p)
    \/ \E p \in Procs : CreateNewKey(p)
    \/ \E p \in Procs : PutObject(p, 1, 1)
    \/ \E p \in Procs : StorePutObject(p, 1, 1)
    \/ \E p \in Procs : StoreDirectReturn(p, 1, 1)
    \/ \E p \in Procs : LogOperation(p)
    \/ \E p \in Procs : LogOperationFails(p)
    \/ \E p \in Procs, id \in ObjectIds : StartDecrypt(p, id)
    \/ \E p \in Procs : GetObject(p)
    \/ \E p \in Procs : DecryptWithKey(p)
    \/ \E p \in Procs, id \in ObjectIds : StartRetrieve(p, id)
    \/ \E p \in Procs : RetrieveWithKey(p)
    \/ \E p \in Procs : LogDocumentAccess(p)
    \/ \E p \in Procs : StartRotate(p)
    \/ \E p \in Procs : RotateQueue(p)
    \/ \E p \in Procs : RotateCount(p)
    \/ \E p \in Procs : RotateCreateKey(p)
    \/ \E p \in Procs : RotateExpire(p)
    \/ \E p \in Procs : RotateMetric(p)
    \/ \E p \in Procs : StartCheckRotate(p)
    \/ \E p \in Procs : FindKeysForRotation(p)
    \/ \E p \in Procs : CheckCreateKey(p)
    \/ \E p \in Procs : CheckQueueKey(p)
    \/ \E p \in Procs : StartGenerateKeys(p)
    \/ \E p \in Procs : StoreKeyInDatabase(p, TRUE)
    \/ \E p \in Procs, http_method \in ApiMethods, path \in ApiPaths, body \in ApiBodies :
          LambdaHandlerUnrouted(p, http_method, path, body)
    \/ \E p \in Procs : Return(p)

SpecApi == InitApi /\ [][NextApi]_vars
\* an idle worker takes an encryption request
EncryptArrives(p) ==
    /\ proc[p].op = "idle"
    /\ proc'[p].op \in {"encrypt", "store_encrypt", "store_direct"}

\* the request is answered at once, with 400, and nothing is touched
Refused(p) ==
    /\ proc'[p].pc = "done"
    /\ proc'[p].res.code = 400
    /\ proc'[p].key = NoKey
    /\ UNCHANGED <<keys, s3, access_logs, kms, selections>>

\* C22: an encryption of a document of MAX_DOCUMENT_SIZE_BYTES + 1 bytes is
\* answered with 400 and selects, increments, creates, stores and logs
\* nothing; a document of exactly MAX_DOCUMENT_SIZE_BYTES bytes goes on to
\* the key selection
C22_OversizedRefused ==
    [][\A p \in Procs : EncryptArrives(p) =>
         /\ Len(proc'[p].doc) = MAX_DOCUMENT_SIZE_BYTES + 1 => Refused(p)
         /\ Len(proc'[p].doc) = MAX_DOCUMENT_SIZE_BYTES => proc'[p].pc = "select"]_vars

----------------------------------------------------------------------------
(* The decrypt endpoint of unified_api on packages that were changed in    *)
(* the bucket after encrypt_document stored them.                          *)

TamperOps == 2
TamperDocs == {<<65>>, Rep(65, BlockSize)}
TamperRows == Rows({"active"}, {0}, {ROTATE_AGE_DAYS}, {TRUE})

InitTamper ==
    \E pool \in PoolsUpTo(1, TamperRows) : InitState(pool, USAGE_LIMIT, 1, TamperOps, 0)

\* one encryption, then decryptions
NextTamper ==
    \/ \E p \in Procs, d \in TamperDocs, id \in CallerIds :
          s3 = <<>> /\ StartEncrypt(p, d, id)
    \/ \E p \in Procs : SelectKey(p)
    \/ \E p \in Procs : UpdateUsage(p)
    \/ \E p \in Procs : CreateNewKey(p)
    \/ \E p \in Procs : PutObject(p, 1, 1)
    \/ \E p \in Procs : LogOperation(p)
    \/ \E id \in DOMAIN s3, pos \in 1..(2 * BlockSize), bit \in 0..(ByteBits - 1) :
          TamperEncryptedData(id, pos, bit)
    \/ \E id \in DOMAIN s3, pos \in 1..BlockSize, bit \in 0..(ByteBits - 1) :
          TamperIv(id, pos, bit)
    \/ \E id \in DOMAIN s3 : TamperCiphertext(id)
    \/ \E id \in DOMAIN s3 : TamperKeyId(id)
    \/ \E p \in Procs, id \in ObjectIds : StartDecrypt(p, id)
    \/ \E p \in Procs : GetObject(p)
    \/ \E p \in Procs : DecryptWithKey(p)
    \/ \E p \in Procs : Return(p)

SpecTamper == InitTamper /\ [][NextTamper]_vars
\* the decrypt request of p ends in this step with a not-found answer: no
\* key was used and no document is in the response
NotFound(p) ==
    /\ proc'[p].pc = "done"
    /\ proc'[p].res.code = 404
    /\ proc'[p].res.error \in {"Document not found", "Encryption key not found"}
    /\ proc'[p].res.data = <<>>
    /\ proc'[p].key = NoKey

KemMismatch(p) ==
    /\ proc[p].pkg.key_id \in DOMAIN keys
    /\ Sha256(UnifiedSharedSecret(KeyById(keys, proc[p].pkg.key_id), proc[p].pkg))
         # B64Decode(proc[p].pkg.encrypted_data).aes_key

\* the decrypt request of p fails in this step after its key was found
DecryptionFails(p) ==
    /\ proc[p].op = "decrypt" /\ proc[p].pc = "getkey"
    /\ proc[p].pkg.key_id \in DOMAIN keys
    /\ proc'[p].pc = "done"

\* C25: a decryption that fails on a stored package is answered in one way,
\* with status 404 and the body of the unpadder's error, whether the
\* decapsulation gave another secret or the padding of the rightly decrypted
\* blocks is malformed
C25_FailuresLookAlike ==
    [][\A p \in Procs :
         DecryptionFails(p) =>
           /\ KemMismatch(p) => proc'[p].res = Response(404, "Invalid padding bytes.")
           /\ ~KemMismatch(p) => proc'[p].res = Response(404, "Invalid padding bytes.")]_vars

\* a decrypt of a package whose KEM ciphertext was changed has failed
C25_Witness ==
    \E p \in Procs :
      /\ proc[p].op = "decrypt" /\ proc[p].pc = "done"
      /\ proc[p].pkg # NoPkg /\ proc[p].pkg.key_id \in DOMAIN keys
      /\ KemMismatch(p)
      /\ proc[p].res = Response(404, "Invalid padding bytes.")
\* encrypted_data or iv of the package is not what encrypt_document wrote
DataOrIvChanged(pkg) ==
    LET c == B64Decode(pkg.encrypted_data)
    IN \/ \E j \in DOMAIN c.delta : c.delta[j] # 0
       \/ B64Decode(pkg.iv) # c.iv

PrivateKeyMaterial == {B64Decode(keys[i].private_key) : i \in DOMAIN keys}

\* a string of bytes the model follows byte by byte
IsBytes(x) == x \in Seq(0..(2 ^ ByteBits - 1) \cup {Unknown})

\* the package has the fields encrypt_document gives it and none of them is
\* a private key
PackageIsClean(pkg) ==
    /\ DOMAIN pkg = {"key_id", "ciphertext", "iv", "encrypted_data", "metadata"}
    /\ DOMAIN pkg.metadata =
         {"encryption_algorithm", "created_at", "kms_key_id", "document_id"}
    /\ {B64Decode(pkg.ciphertext), B64Decode(pkg.encrypted_data),
        B64Decode(pkg.encrypted_data).aes_key,
        B64Decode(pkg.encrypted_data).aes_key.sha256} \cap PrivateKeyMaterial = {}
    /\ IsBytes(B64Decode(pkg.iv))
    /\ pkg.key_id \in Nat /\ pkg.metadata.kms_key_id \in Nat
    /\ pkg.metadata.document_id \in Nat /\ pkg.metadata.created_at \in Nat

DecryptStep(p) ==
    /\ proc'[p] # proc[p]
    /\ \/ proc[p].op \in {"decrypt", "retrieve"}
       \/ proc'[p].op \in {"decrypt", "retrieve"}

\* C28: no step of a decrypt, successful or failed, changes a package in the
\* bucket or a key record: the only table it writes is access_logs
C28_DecryptOnlyLogs ==
    [][\A p \in Procs :
         DecryptStep(p) =>
           /\ s3' = s3
           /\ keys' = keys
           /\ key_rotations' = key_rotations]_vars

\* a decrypt has returned the document and left its row in access_logs, and
\* the key it used has been used for encryption
C28_Witness ==
    \E p \in Procs :
      /\ proc[p].op = "decrypt" /\ proc[p].pc = "done" /\ proc[p].res.code = 200
      /\ proc[p].did \in DOMAIN s3 /\ s3[proc[p].did] = proc[p].pkg
      /\ keys[proc[p].key.id].usage_count > 0
      /\ \E i \in DOMAIN access_logs :
           access_logs[i] = LogEntry(proc[p].did, "decrypt", proc[p].key.id)
\* the step is one of an encrypt request of p, from its arrival to its answer
EncryptStep(p) ==
    /\ proc'[p] # proc[p]
    /\ Selecting(p) \/ proc'[p].op \in {"encrypt", "store_encrypt", "store_direct"}

\* C29: no step of an encrypt changes the status of a key record; of the
\* records that exist, it changes the usage_count of the key it selected and
\* nothing else
C29_EncryptKeepsStatus ==
    [][\A p \in Procs :
         EncryptStep(p) =>
           /\ Len(keys') >= Len(keys)
           /\ \A i \in DOMAIN keys :
                /\ keys'[i].status = keys[i].status
                /\ [keys'[i] EXCEPT !.usage_count = keys[i].usage_count] = keys[i]
                /\ keys'[i].usage_count # keys[i].usage_count =>
                     (proc[p].pc = "update" /\ i = proc[p].key.id)]_vars

\* an encrypt found no active key among the records of the table, created
\* one and has answered
C29_Witness ==
    \E p \in Procs :
      /\ Selecting(p) /\ proc[p].pc = "done" /\ proc[p].res.code = 200
      /\ pool0.keys > 0 /\ pool0.active = 0
      /\ proc[p].key.id > pool0.keys
      /\ \A i \in 1..pool0.keys : keys[i].status # "active"
\* C30: the usage_count of every key record is at least 0, and no step lowers
\* the usage_count of a key that is active before and after it
C30_UsageNeverDecreases ==
    /\ [](\A i \in DOMAIN keys : keys[i].usage_count >= 0)
    /\ [][\A i \in DOMAIN keys :
            (keys[i].status = "active" /\ keys'[i].status = "active") =>
              keys'[i].usage_count >= keys[i].usage_count]_vars

\* a key that was at the usage threshold has been selected again and is
\* still active
C30_Witness ==
    \E i \in DOMAIN keys :
      /\ keys[i].status = "active"
      /\ keys[i].usage_count = USAGE_LIMIT + 1
----------------------------------------------------------------------------
(* Key creation, the router of unified_api, and the claims on the pool     *)
(* under concurrent requests.                                              *)

\* C31: every step that adds to encryption_keys adds one record, active,
\* with usage_count 0, whose public and private key are those of no record
\* that was in the table
C31_CreatedKeysAreFresh ==
    [][Len(keys') # Len(keys) =>
         /\ Len(keys') = Len(keys) + 1
         /\ \A i \in DOMAIN keys : keys'[i] = keys[i]
         /\ keys'[Len(keys')].status = "active"
         /\ keys'[Len(keys')].usage_count = 0
         /\ \A i \in DOMAIN keys :
              /\ keys[i].public_key # keys'[Len(keys')].public_key
              /\ keys[i].private_key # keys'[Len(keys')].private_key]_vars

\* keys were created both by a path that makes a KMS key and by rotate_keys,
\* which makes none
C31_Witness ==
    \E i, j \in DOMAIN keys :
      /\ i > pool0.keys /\ j > pool0.keys
      /\ keys[i].kms_key_id > 0 /\ keys[j].kms_key_id = 0
      /\ keys[i].private_key # keys[j].private_key
\* C32: a request whose method and path are those of no route is answered
\* with 404, and the key pool, the bucket and the audit log are as before
C32_UnknownRouteNotFound ==
    [][\A p \in Procs :
         (proc[p].op = "idle" /\ proc'[p].op = "unrouted") =>
           /\ proc'[p].res.code = 404
           /\ UNCHANGED <<keys, s3, access_logs, key_rotations>>]_vars
\* C33: a key that was active when a rotation pass began is not expired when
\* that pass has ended: the pool's keys were all active and this is the
\* first pass since
C33_NoExpiryWithoutGrace ==
    \A p \in Procs :
      (Completed(p) /\ FirstPass(p) /\ pool0.active = pool0.keys) =>
        \A i \in 1..pool0.keys : keys[i].status # "expired"
\* C34: no step changes the usage_count of a key whose status is
\* rotation_queued or expired
C34_OnlyActiveKeysCounted ==
    [][\A i \in DOMAIN keys :
         keys[i].status \in {"rotation_queued", "expired"} =>
           keys'[i].usage_count = keys[i].usage_count]_vars
----------------------------------------------------------------------------
(* Encryptions that arrive while the pool has no active key, and at most   *)
(* one rotation pass at a time.                                            *)

RaceProcs == 2
RaceOps == 3
RaceRows == Rows({"active", "rotation_queued", "expired"}, {0}, {ROTATE_AGE_DAYS + 1}, {TRUE})

InitRace ==
    \E pool \in PoolsUpTo(1, RaceRows) : InitState(pool, USAGE_LIMIT, RaceProcs, RaceOps, 0)

NextRace ==
    \/ \E p \in Procs, id \in CallerIds \cup {0} :
          ActiveIds(keys) = {} /\ StartEncrypt(p, <<65>>, id)
    \/ \E p \in Procs : SelectKey(p)
    \/ \E p \in Procs : UpdateUsage(p)
    \/ \E p \in Procs : CreateNewKey(p)
    \/ \E p \in Procs : PutObject(p, 1, 1)
    \/ \E p \in Procs : LogOperation(p)
    \/ \E p \in Procs : (\A q \in Procs : proc[q].op # "rotate") /\ StartRotate(p)
    \/ \E p \in Procs : RotateQueue(p)
    \/ \E p \in Procs : RotateCount(p)
    \/ \E p \in Procs : RotateCreateKey(p)
    \/ \E p \in Procs : RotateExpire(p)
    \/ \E p \in Procs : RotateMetric(p)
    \/ \E p \in Procs : Return(p)

SpecRace == InitRace /\ [][NextRace]_vars

\* a completed pass leaves at least minActiveKeys active keys
FloorAfterPass ==
    \A p \in Procs : Completed(p) => Cardinality(ActiveIds(keys)) >= minActiveKeys

\* an encryption adds at most one key, in its create_new_key
OneKeyPerEncrypt ==
    \A p \in Procs : EncryptStep(p) =>
      /\ Len(keys') <= Len(keys) + 1
      /\ Len(keys') > Len(keys) => (proc[p].pc = "create" /\ proc'[p].pc = "put")

\* every encryption that has ended has succeeded
EncryptionsSucceed ==
    \A p \in Procs : (proc[p].op = "encrypt" /\ proc[p].pc = "done") => proc[p].res.code = 200

\* C35: with encryptions that arrive on a pool without active key and at
\* most one rotation pass at a time, a completed pass leaves at least
\* minActiveKeys active keys, every encryption succeeds, and every
\* encryption creates at most one key
C35_OverCreationOnly ==
    /\ []FloorAfterPass
    /\ []EncryptionsSucceed
    /\ [][OneKeyPerEncrypt]_vars
\* the key record the package names exists and holds the private key of the
\* public key the package's secret was encapsulated to
KeyResolves(pkg) ==
    /\ pkg.key_id \in DOMAIN keys
    /\ B64Decode(keys[pkg.key_id].private_key).sk = B64Decode(pkg.ciphertext).to
    /\ KemDecrypt(B64Decode(keys[pkg.key_id].private_key), B64Decode(pkg.ciphertext)).kind = "kem"

\* C36: no step removes a key record or changes the key pair of one, and the
\* key_id of every package in the bucket is that of a record that holds the
\* private key the package was encrypted under
C36_PackageKeyResolves ==
    /\ [](\A id \in DOMAIN s3 : KeyResolves(s3[id]))
    /\ [][/\ Len(keys') >= Len(keys)
          /\ \A i \in DOMAIN keys :
               /\ keys'[i].private_key = keys[i].private_key
               /\ keys'[i].public_key = keys[i].public_key]_vars

\* a package is in the bucket whose key a rotation pass has expired
C36_Witness ==
    \E id \in DOMAIN s3 :
      /\ KeyResolves(s3[id])
      /\ keys[s3[id].key_id].status = "expired"
----------------------------------------------------------------------------
(* One caller of unified_api who encrypts and decrypts, one request after  *)
(* the other, under an id of its own and under generated ids.              *)

WriteOps == 3
WriteDocs == {<<>>, <<65>>, <<66>>}

InitWrite ==
    \E pool \in PoolsUpTo(1, UniRows) : InitState(pool, USAGE_LIMIT, 1, WriteOps, 0)

NextWrite ==
    \/ \E p \in Procs, d \in WriteDocs, id \in CallerIds \cup {0} : StartEncrypt(p, d, id)
    \/ \E p \in Procs : SelectKey(p)
    \/ \E p \in Procs : UpdateUsage(p)
    \/ \E p \in Procs : CreateNewKey(p)
    \/ \E p \in Procs : PutObject(p, 1, 1)
    \/ \E p \in Procs : LogOperation(p)
    \/ \E p \in Procs, id \in ObjectIds : StartDecrypt(p, id)
    \/ \E p \in Procs : GetObject(p)
    \/ \E p \in Procs : DecryptWithKey(p)
    \/ \E p \in Procs : Return(p)

SpecWrite == InitWrite /\ [][NextWrite]_vars

\* the step in which a handler answers 200
Answers(p, op) ==
    /\ proc[p].op = op /\ proc[p].pc = "log"
    /\ proc'[p].pc = "done" /\ proc'[p].res.code = 200

\* C38: when an encrypt answers, the document last stored under its id is
\* its content; a decrypt answers with the document last stored under the
\* id it was asked for; and no step of an encrypt changes what is stored
\* under another id
C38_LastEncryptWins ==
    [][\A p \in Procs :
         /\ Answers(p, "encrypt") =>
              (proc[p].did \in DOMAIN plain /\ plain[proc[p].did] = proc[p].doc)
         /\ Answers(p, "decrypt") => proc'[p].res.data = plain[proc[p].did]
         /\ EncryptStep(p) =>
              \A id \in DOMAIN s3 \ {proc'[p].did} :
                 id \in DOMAIN s3' /\ s3'[id] = s3[id] /\ plain'[id] = plain[id]]_vars

\* the caller's id was encrypted under twice and a decrypt has answered with
\* the document B
C38_Witness ==
    \E p \in Procs :
      /\ proc[p].op = "decrypt" /\ proc[p].pc = "done" /\ proc[p].res.code = 200
      /\ proc[p].did \in CallerIds /\ proc[p].res.data = <<66>>
      /\ selections = 2 /\ DOMAIN s3 = CallerIds

----------------------------------------------------------------------------
(* The audit log                                                           *)

\* the step in which an encryption or a decryption answers without an error
Succeeds(p) ==
    /\ proc[p].op \in {"encrypt", "store_encrypt", "decrypt", "retrieve"}
    /\ proc[p].pc # "done" /\ proc'[p].pc = "done"
    /\ proc'[p].res.code = 200 /\ proc'[p].res.error = ""

\* the access type the operation should be logged with
OperationName(op) == IF op \in {"encrypt", "store_encrypt"} THEN "encrypt" ELSE "decrypt"

\* the log grows at its end only, by one entry at most
AppendOnly ==
    /\ Len(access_logs') \in {Len(access_logs), Len(access_logs) + 1}
    /\ SubSeq(access_logs', 1, Len(access_logs)) = access_logs

\* the step wrote one entry, of the operation's type
WroteEntry(p) ==
    /\ Len(access_logs') = Len(access_logs) + 1
    /\ access_logs'[Len(access_logs')].access_type = OperationName(proc[p].op)

\* the step tried to write and the store refused
StoreRefused(p) == proc[p].pc = "log" /\ access_logs' = access_logs

\* C39: the audit log only grows at its end; every entry written carries
\* the access type encrypt or decrypt of the operation that wrote it; and an
\* encryption or decryption that succeeds has written exactly one entry,
\* unless the store refused the write
C39_AuditLogPerOperation ==
    [][/\ AppendOnly
       /\ \A p \in Procs :
            /\ (proc[p].pc = "log" /\ access_logs' # access_logs) => WroteEntry(p)
            /\ Succeeds(p) => (WroteEntry(p) \/ StoreRefused(p))]_vars

----------------------------------------------------------------------------
(* The decrypt response: one caller stores a document and asks for it in   *)
(* each output format.                                                     *)

FormatOps == 2

\* ASCII of one to four bytes, the bounds 0 and 127, and documents with a
\* byte of 128 or more, valid UTF-8 among them
FormatDocs ==
    {<<65>>, <<65, 66>>, <<65, 66, 67>>, <<65, 66, 67, 68>>, <<0, 127>>,
     <<128>>, <<200>>, <<65, 200>>, <<195, 169>>, <<255, 255, 255>>}

\* the SDK sends 'text' or 'base64'; any other value is taken as base64
OutputFormats == {"text", "base64", "binary"}

InitFormat ==
    \E pool \in PoolsUpTo(1, UniRows) : InitState(pool, USAGE_LIMIT, 1, FormatOps, 0)

NextFormat ==
    \/ \E p \in Procs, d \in FormatDocs, id \in CallerIds : StartEncrypt(p, d, id)
    \/ \E p \in Procs : SelectKey(p)
    \/ \E p \in Procs : UpdateUsage(p)
    \/ \E p \in Procs : CreateNewKey(p)
    \/ \E p \in Procs : PutObject(p, 1, 1)
    \/ \E p \in Procs : LogOperation(p)
    \/ \E p \in Procs, id \in CallerIds : StartDecrypt(p, id)
    \/ \E p \in Procs, id \in CallerIds, output_format \in OutputFormats :
          StartDecryptFormat(p, id, output_format)
    \/ \E p \in Procs : GetObject(p)
    \/ \E p \in Procs : DecryptWithKey(p)
    \/ \E p \in Procs : Return(p)

SpecFormat == InitFormat /\ [][NextFormat]_vars

\* what a reader of the response gets who decodes by the flag
DecodedByFlag(res) ==
    IF res.is_base64_encoded THEN B64DecodeText(res.document_content)
    ELSE Utf8Encode(res.document_content)

\* C40: a decrypt that has decrypted its document answers 200; the answer is
\* text, flagged not base64, exactly if 'text' was asked for and every byte
\* is below 128, and base64, flagged so, otherwise; and decoding the content
\* by the flag gives the decrypted bytes
C40_ResponseKeepsContent ==
    [][\A p \in Procs :
         (proc[p].op = "decrypt" /\ proc[p].pc = "log" /\ proc'[p].pc = "done") =>
            /\ proc'[p].res.code = 200
            /\ ~proc'[p].res.is_base64_encoded <=>
                  /\ proc[p].output_format = "text"
                  /\ \A i \in DOMAIN proc[p].doc : proc[p].doc[i] < 128
            /\ ~proc'[p].res.is_base64_encoded =>
                  proc'[p].res.document_content = proc[p].doc
            /\ proc'[p].res.is_base64_encoded =>
                  proc'[p].res.document_content = B64EncodeBytes(proc[p].doc)
            /\ DecodedByFlag(proc'[p].res) = proc[p].doc
            /\ proc[p].doc = plain[proc[p].did]]_vars

\* text was asked for, the document holds a byte above 127, and the answer
\* is the base64 text "Qcg="
C40_Witness ==
    \E p \in Procs :
      /\ proc[p].op = "decrypt" /\ proc[p].pc = "done" /\ proc[p].res.code = 200
      /\ proc[p].output_format = "text" /\ proc[p].doc = <<65, 200>>
      /\ proc[p].res.is_base64_encoded
      /\ proc[p].res.document_content = <<81, 99, 103, 61>>
====
